---------------------------- MODULE Spec2Model ----------------------------
(***************************************************************************)
(* The unit conversion library and the two tune-report generators of the   *)
(* Forza Motorsport setup formatter:                                       *)
(*   src/src/lib/conversions.ts, lines 1-209   the conversion functions    *)
(*   src/src/lib/conversions.ts, lines 211-618 the markdown generator      *)
(*                                             (fmRedditGenerator)         *)
(*   src/src/components/formatter/motorsport/fm-discord-generator.ts       *)
(*                                             the terse chat generator    *)
(*   src/src/components/formatter/motorsport/FMSetup.ts  the record        *)
(*                                                                         *)
(* JavaScript strings are TLA+ strings, so every rendered line is the text *)
(* the code builds.  JavaScript numbers are exact rationals over decimal   *)
(* digit sequences (no rounding error, no overflow); NaN is a number with  *)
(* the nan flag set.  Names of the markdown generator carry the prefix R_, *)
(* names of the chat generator the prefix D_, because the two files define *)
(* the same function names.                                                *)
(***************************************************************************)
EXTENDS Integers, Sequences, FiniteSets, TLC

VARIABLES
  pc,       \* which operation has been applied so far
  value,    \* the number handed to a conversion
  unit0,    \* the unit the caller of a conversion started from
  unit,     \* the unit `result` is expressed in
  result,   \* the number a conversion returned last
  text,     \* the string returned by convertTo or by a generator
  form,     \* the FMSetup record handed to a generator
  lines     \* the lines returned by a section formatter

vars == <<pc, value, unit0, unit, result, text, form, lines>>

----------------------------------------------------------------------------
(* Evaluation order.  JavaScript evaluates an argument once, before the    *)
(* call.  The({ body : x \in {e} }) does the same here: e is evaluated     *)
(* once and x names its value in body.                                     *)

The(S) == CHOOSE x \in S : TRUE

----------------------------------------------------------------------------
(* JavaScript strings                                                      *)

CharAt(s, i) == SubSeq(s, i, i)

Digits == {"0", "1", "2", "3", "4", "5", "6", "7", "8", "9"}

DigitVal(c) ==
  CASE c = "0" -> 0 [] c = "1" -> 1 [] c = "2" -> 2 [] c = "3" -> 3
    [] c = "4" -> 4 [] c = "5" -> 5 [] c = "6" -> 6 [] c = "7" -> 7
    [] c = "8" -> 8 [] c = "9" -> 9

DigitChar(d) == CharAt("0123456789", d + 1)

----------------------------------------------------------------------------
(* Natural numbers of any size: little-endian sequences of limbs in        *)
(* 0..Base-1 without a leading zero limb; <<>> is 0.                       *)

Base == 100 * 100

Pow10(k) == CASE k = 0 -> 1 [] k = 1 -> 10 [] k = 2 -> 100 [] k = 3 -> 1000

\* a without its leading zero entries (limbs or digits)
BigNorm(a0) ==
  The({ LET nz == {i \in 1..Len(a) : a[i] # 0}
        IN  IF nz = {} THEN <<>>
            ELSE SubSeq(a, 1, CHOOSE i \in nz : \A j \in nz : j <= i)
        : a \in {a0} })

BigFromInt(n0) ==
  The({ BigNorm(<<n % Base, (n \div Base) % Base, n \div (Base * Base)>>) : n \in {n0} })

\* a + b + carry, limb i first
RECURSIVE BigAddC(_, _, _, _)
BigAddC(a, b, i, carry) ==
  IF i > Len(a) /\ i > Len(b) THEN (IF carry = 0 THEN <<>> ELSE <<carry>>)
  ELSE The({ <<s % Base>> \o BigAddC(a, b, j, s \div Base) :
             s \in {(IF i <= Len(a) THEN a[i] ELSE 0)
                      + (IF i <= Len(b) THEN b[i] ELSE 0) + carry},
             j \in {i + 1} })

BigAdd(a0, b0) == The({ BigAddC(a, b, 1, 0) : a \in {a0}, b \in {b0} })

\* a * d + carry for one limb d, limb i first
RECURSIVE BigMulLimbC(_, _, _, _)
BigMulLimbC(a, d, i, carry) ==
  IF i > Len(a) THEN (IF carry = 0 THEN <<>> ELSE <<carry>>)
  ELSE The({ <<s % Base>> \o BigMulLimbC(a, d, j, s \div Base) :
             s \in {a[i] * d + carry}, j \in {i + 1} })

BigMulLimb(a0, d0) ==
  The({ IF d = 0 THEN <<>> ELSE BigMulLimbC(a, d, 1, 0) : a \in {a0}, d \in {d0} })

\* a * Base^k
BigShiftLimbs(a0, k) ==
  The({ IF a = <<>> THEN <<>> ELSE [i \in 1..k |-> 0] \o a : a \in {a0} })

\* acc * Base^j + a * (b[1] + ... + b[j] * Base^(j-1))
RECURSIVE BigMulAcc(_, _, _, _)
BigMulAcc(a, b, j, acc) ==
  IF j = 0 THEN acc
  ELSE The({ BigMulAcc(a, b, k, next) :
             next \in {BigAdd(BigShiftLimbs(acc, 1), BigMulLimb(a, b[j]))},
             k \in {j - 1} })

BigMul(a0, b0) == The({ BigMulAcc(a, b, Len(b), <<>>) : a \in {a0}, b \in {b0} })

\* -1, 0 or 1 as a < b, a = b, a > b
BigCmp(a0, b0) ==
  The({ IF Len(a) < Len(b) THEN -1
        ELSE IF Len(a) > Len(b) THEN 1
        ELSE IF a = b THEN 0
        ELSE The({ IF a[i] < b[i] THEN -1 ELSE 1 :
                   i \in {CHOOSE i \in 1..Len(a) :
                            a[i] # b[i] /\ \A j \in (i + 1)..Len(a) : a[j] = b[j]} })
        : a \in {a0}, b \in {b0} })

\* a - b - borrow for a >= b, limb i first
RECURSIVE BigSubB(_, _, _, _)
BigSubB(a, b, i, borrow) ==
  IF i > Len(a) THEN <<>>
  ELSE The({ <<(s + Base) % Base>> \o BigSubB(a, b, j, IF s < 0 THEN 1 ELSE 0) :
             s \in {a[i] - (IF i <= Len(b) THEN b[i] ELSE 0) - borrow},
             j \in {i + 1} })

BigSub(a0, b0) == The({ BigNorm(BigSubB(a, b, 1, 0)) : a \in {a0}, b \in {b0} })

\* a * 10^k
BigShift(a, k0) ==
  The({ BigShiftLimbs(BigMulLimb(a, Pow10(k % 4)), k \div 4) : k \in {k0} })

\* the largest d in lo..hi with b * d <= r, given b * lo <= r
RECURSIVE BigQuotLimb(_, _, _, _)
BigQuotLimb(r, b, lo, hi) ==
  IF lo = hi THEN lo
  ELSE The({ IF BigCmp(BigMulLimb(b, mid), r) <= 0
             THEN BigQuotLimb(r, b, mid, hi)
             ELSE BigQuotLimb(r, b, lo, mid - 1)
             : mid \in {(lo + hi + 1) \div 2} })

\* long division, from the most significant limb a[i] down: the quotient so far
\* is q, the remainder so far is r
RECURSIVE BigDivFrom(_, _, _, _, _)
BigDivFrom(a, b, i, q, r) ==
  IF i = 0 THEN BigNorm(q)
  ELSE The({ The({ The({ BigDivFrom(a, b, j, q1, r2) :
                         q1 \in {<<d>> \o q},
                         r2 \in {BigSub(r1, BigMulLimb(b, d))},
                         j \in {i - 1} })
                   : d \in {BigQuotLimb(r1, b, 0, Base - 1)} })
             : r1 \in {BigNorm(<<a[i]>> \o r)} })

\* floor(a / b) for b > 0
BigDiv(a0, b0) == The({ BigDivFrom(a, b, Len(a), <<>>, <<>>) : a \in {a0}, b \in {b0} })

\* little-endian decimal digits to limbs, and back
DigitsToBig(d0) ==
  The({ BigNorm([k \in 1..((Len(d) + 3) \div 4) |->
                   LET at(i) == IF i <= Len(d) THEN d[i] ELSE 0
                       o == 4 * (k - 1)
                   IN  at(o + 1) + 10 * at(o + 2) + 100 * at(o + 3) + 1000 * at(o + 4)])
        : d \in {d0} })

BigToDigits(a0) ==
  The({ BigNorm([i \in 1..(4 * Len(a)) |->
                   (a[((i - 1) \div 4) + 1] \div Pow10((i - 1) % 4)) % 10])
        : a \in {a0} })

\* the text of the digits d[i], d[i-1], ..., d[1]
RECURSIVE DigitsToString(_, _)
DigitsToString(d, i) ==
  IF i = 0 THEN ""
  ELSE The({ DigitChar(d[i]) \o DigitsToString(d, j) : j \in {i - 1} })

\* the decimal digits of a, at least `width` of them (zero filled on the left)
BigToString(a, width) ==
  The({ The({ DigitsToString(padded, Len(padded)) :
              padded \in {IF Len(d) < width
                          THEN d \o [i \in 1..(width - Len(d)) |-> 0] ELSE d} })
        : d \in {BigToDigits(a)} })

----------------------------------------------------------------------------
(* JavaScript numbers: (-1)^neg * num / den, or NaN                        *)

Num(neg, num, den) == [nan |-> FALSE, neg |-> neg, num |-> num, den |-> den]

NaN == [nan |-> TRUE, neg |-> FALSE, num |-> <<>>, den |-> <<1>>]

Zero == Num(FALSE, <<>>, <<1>>)

NumFromInt(n) == Num(FALSE, BigFromInt(n), <<1>>)

\* x * y
NumMul(x0, y0) ==
  The({ IF x.nan \/ y.nan THEN NaN
        ELSE Num(x.neg # y.neg, BigMul(x.num, y.num), BigMul(x.den, y.den))
        : x \in {x0}, y \in {y0} })

\* x / y, for y # 0 (no multiplier of the program is 0)
NumDiv(x0, y0) ==
  The({ IF x.nan \/ y.nan THEN NaN
        ELSE Num(x.neg # y.neg, BigMul(x.num, y.den), BigMul(x.den, y.num))
        : x \in {x0}, y \in {y0} })

\* x === y on numbers: NaN equals nothing, -0 equals 0
NumEq(x0, y0) ==
  \E x \in {x0}, y \in {y0} :
    /\ ~x.nan /\ ~y.nan
    /\ BigMul(x.num, y.den) = BigMul(y.num, x.den)
    /\ (x.neg = y.neg \/ x.num = <<>>)

\* !x on a number: true of 0 and of NaN
NumFalsy(x0) == \E x \in {x0} : x.nan \/ x.num = <<>>

\* Number.prototype.toFixed(precision): fixed-point text, ties rounded up in
\* magnitude; "NaN" for NaN
toFixed(x0, precision) ==
  The({ IF x.nan THEN "NaN"
        ELSE The({ (IF x.neg /\ x.num # <<>> THEN "-" ELSE "")
                     \o SubSeq(digits, 1, Len(digits) - precision)
                     \o (IF precision > 0
                         THEN "." \o SubSeq(digits, Len(digits) - precision + 1, Len(digits))
                         ELSE "")
                   : digits \in {BigToString(
                        BigDiv(BigAdd(BigMulLimb(BigShift(x.num, precision), 2), x.den),
                               BigMulLimb(x.den, 2)),
                        precision + 1)} })
        : x \in {x0} })

\* the digits of s from position i on, as far as they go, last digit first
RECURSIVE ScanDigits(_, _, _)
ScanDigits(s, i, acc) ==
  IF i <= Len(s) /\ CharAt(s, i) \in Digits
  THEN The({ ScanDigits(s, j, next) :
             next \in {<<DigitVal(CharAt(s, i))>> \o acc}, j \in {i + 1} })
  ELSE acc

RECURSIVE SkipBlanks(_, _)
SkipBlanks(s, i) ==
  IF i <= Len(s) /\ CharAt(s, i) \in {" ", "\t", "\n"}
  THEN The({ SkipBlanks(s, j) : j \in {i + 1} })
  ELSE i

\* the decimal number whose sign is neg and whose digits start at s[i]
ParseDecimal(s, neg, i) ==
  The({ The({ IF whole = <<>> /\ frac = <<>> THEN NaN
              ELSE Num(neg, DigitsToBig(frac \o whole), BigShift(<<1>>, Len(frac)))
              : frac \in {IF i + Len(whole) <= Len(s) /\ CharAt(s, i + Len(whole)) = "."
                          THEN ScanDigits(s, i + Len(whole) + 1, <<>>)
                          ELSE <<>>} })
        : whole \in {ScanDigits(s, i, <<>>)} })

\* parseFloat(s): the longest decimal prefix (blanks, sign, digits, point,
\* digits) of s as a number; NaN when no digit starts it.  Exponents and
\* "Infinity" are outside the modelled inputs.
parseFloat(s0) ==
  The({ The({ IF b <= Len(s) /\ CharAt(s, b) \in {"-", "+"}
              THEN ParseDecimal(s, CharAt(s, b) = "-", b + 1)
              ELSE ParseDecimal(s, FALSE, b)
              : b \in {SkipBlanks(s, 1)} })
        : s \in {s0} })

----------------------------------------------------------------------------
(* lib/types and lib/utils are not among the source files; the enum values *)
(* and ensureFloat follow the specification.                               *)

PressureUnit == [bar |-> "bar", psi |-> "psi"]

\* FMSetup.ts names the metric spring unit kgfmm, conversions.ts names it kgf
SpringRateUnit == [kgf |-> "kgf/mm", kgfmm |-> "kgf/mm", lbs |-> "lbs/in"]

LengthUnit == [cm |-> "cm", in |-> "in"]

ForceUnit == [kgf |-> "kgf", lbf |-> "lbf"]

SpeedUnit == [kph |-> "kph", mph |-> "mph"]

\* UnitOfMeasure: every unit of the registry
UnitOfMeasure ==
  {PressureUnit.bar, PressureUnit.psi, SpringRateUnit.kgf, SpringRateUnit.lbs,
   LengthUnit.cm, LengthUnit.in, ForceUnit.kgf, ForceUnit.lbf,
   SpeedUnit.kph, SpeedUnit.mph}

\* the enum (physical quantity) a unit belongs to
QuantityOf(u) ==
  CASE u \in {PressureUnit.bar, PressureUnit.psi}       -> "pressure"
    [] u \in {SpringRateUnit.kgf, SpringRateUnit.lbs}   -> "springRate"
    [] u \in {LengthUnit.cm, LengthUnit.in}             -> "length"
    [] u \in {ForceUnit.kgf, ForceUnit.lbf}             -> "force"
    [] u \in {SpeedUnit.kph, SpeedUnit.mph}             -> "speed"
    [] OTHER                                            -> "none"

\* the JavaScript value undefined
undefined == "<undefined>"

\* a JavaScript string handed to a parameter of type string | number; a number
\* is handed over as it is
JSString(s) == [str |-> s]

IsJSString(v) == "str" \in DOMAIN v

\* ensureFloat(value): a number as it is, a string parsed as a float, 0 when
\* it does not parse
ensureFloat(value0) ==
  The({ IF IsJSString(v)
        THEN The({ IF parsed.nan THEN Zero ELSE parsed : parsed \in {parseFloat(v.str)} })
        ELSE v
        : v \in {value0} })

----------------------------------------------------------------------------
(* src/src/lib/conversions.ts: the conversion engine                       *)

\* the decimal fraction digits / 10^scale, its digits given as limbs of four
\* digits, the last four first
Decimal(limbs, scale) == Num(FALSE, limbs, BigShift(<<1>>, scale))

multipliers ==
  [springs |-> [newtonsKgf |-> Decimal(<<2978, 1621, 197, 1>>, 13),     \* 0.1019716212978
                newtonsLbs |-> Decimal(<<3224, 7174, 1014, 57>>, 14)],   \* 0.57101471743224
   force               |-> Decimal(<<4386, 3684, 3592, 45>>, 14),        \* 0.45359236844386
   pressure            |-> Decimal(<<5728, 8947, 6>>, 10),               \* 0.0689475728
   length              |-> Decimal(<<214, 7874, 3700, 39>>, 14),         \* 0.39370078740214
   weightNewtonsToMass |-> Decimal(<<665, 98>>, 5),                      \* 9.80665
   speed               |-> Decimal(<<1371, 62>>, 6)]                     \* 0.621371

convertPressure_mul(v0, from) == NumMul(ensureFloat(v0), multipliers.pressure)

convertPressure(value0, from) ==
  The({ IF from = PressureUnit.bar THEN NumDiv(v, multipliers.pressure)
        ELSE NumMul(v, multipliers.pressure)
        : v \in {ensureFloat(value0)} })

convertLength(value0, from) ==
  The({ IF from = LengthUnit.cm THEN NumMul(v, multipliers.length)
        ELSE NumDiv(v, multipliers.length)
        : v \in {ensureFloat(value0)} })

convertForce(value0, from) ==
  The({ IF from = ForceUnit.kgf THEN NumDiv(v, multipliers.force)
        ELSE NumMul(v, multipliers.force)
        : v \in {ensureFloat(value0)} })

convertSpeed(value0, from) ==
  The({ IF from = SpeedUnit.mph THEN NumDiv(v, multipliers.speed)
        ELSE NumMul(v, multipliers.speed)
        : v \in {ensureFloat(value0)} })

convertSpringRateToNewtons(value0, from) ==
  The({ IF from = SpringRateUnit.kgf THEN NumDiv(v, multipliers.springs.newtonsKgf)
        ELSE IF from = SpringRateUnit.lbs THEN NumDiv(v, multipliers.springs.newtonsLbs)
        ELSE v
        : v \in {ensureFloat(value0)} })

convertSpringRateFromNewtons(value0, to) ==
  The({ IF to = SpringRateUnit.kgf THEN NumMul(v, multipliers.springs.newtonsKgf)
        ELSE IF to = SpringRateUnit.lbs THEN NumMul(v, multipliers.springs.newtonsLbs)
        ELSE v
        : v \in {value0} })

convertSpringRate(value0, from, to) ==
  The({ convertSpringRateFromNewtons(newtons, to)
        : newtons \in {convertSpringRateToNewtons(value0, from)} })

convertPressureFrom(value0, from) ==
  The({ IF from = PressureUnit.bar THEN [bar |-> v, psi |-> c]
        ELSE [bar |-> c, psi |-> v]
        : v \in {ensureFloat(value0)}, c \in {convertPressure(ensureFloat(value0), from)} })

convertLengthFrom(value0, from) ==
  The({ IF from = LengthUnit.in THEN [in |-> v, cm |-> c]
        ELSE [in |-> c, cm |-> v]
        : v \in {ensureFloat(value0)}, c \in {convertLength(ensureFloat(value0), from)} })

convertForceFrom(value0, from) ==
  The({ IF from = ForceUnit.kgf THEN [kgf |-> v, lbf |-> c]
        ELSE [kgf |-> c, lbf |-> v]
        : v \in {ensureFloat(value0)}, c \in {convertForce(ensureFloat(value0), from)} })

getSpeedValuesFrom(value0, from) ==
  The({ IF from = SpeedUnit.kph THEN [kph |-> v, mph |-> c]
        ELSE [kph |-> c, mph |-> v]
        : v \in {ensureFloat(value0)}, c \in {convertSpeed(ensureFloat(value0), from)} })

\* convertSpringRateFrom whose kgf and lbs fields swap their units
convertSpringRateFrom_swapped(value0, from) ==
  The({ [newtons |-> newtons,
         kgf |-> convertSpringRateFromNewtons(newtons, SpringRateUnit.lbs),
         lbs |-> convertSpringRateFromNewtons(newtons, SpringRateUnit.kgf)]
        : newtons \in {convertSpringRateToNewtons(value0, from)} })

convertSpringRateFrom(value0, from) ==
  The({ [newtons |-> newtons,
         kgf |-> convertSpringRateFromNewtons(newtons, SpringRateUnit.kgf),
         lbs |-> convertSpringRateFromNewtons(newtons, SpringRateUnit.lbs)]
        : newtons \in {convertSpringRateToNewtons(value0, from)} })

\* convertToMap[to](value)
convertToMap(to, value0) ==
  CASE to = PressureUnit.bar   -> convertPressure(value0, PressureUnit.psi)
    [] to = PressureUnit.psi   -> convertPressure(value0, PressureUnit.bar)
    [] to = SpringRateUnit.kgf -> convertSpringRate(value0, SpringRateUnit.kgf, SpringRateUnit.lbs)
    [] to = SpringRateUnit.lbs -> convertSpringRate(value0, SpringRateUnit.lbs, SpringRateUnit.kgf)
    [] to = LengthUnit.cm      -> convertLength(value0, LengthUnit.in)
    [] to = LengthUnit.in      -> convertLength(value0, LengthUnit.cm)
    [] to = ForceUnit.kgf      -> convertForce(value0, ForceUnit.lbf)
    [] to = ForceUnit.lbf      -> convertForce(value0, ForceUnit.kgf)
    [] to = SpeedUnit.kph      -> convertSpeed(value0, SpeedUnit.mph)
    [] to = SpeedUnit.mph      -> convertSpeed(value0, SpeedUnit.kph)

convertTo(value0, to, precision) == toFixed(convertToMap(to, value0), precision)

switchUnitMap_force ==
  [u \in UnitOfMeasure |->
     CASE u = PressureUnit.bar   -> PressureUnit.psi
       [] u = PressureUnit.psi   -> PressureUnit.bar
       [] u = SpringRateUnit.kgf -> SpringRateUnit.lbs
       [] u = SpringRateUnit.lbs -> SpringRateUnit.kgf
       [] u = LengthUnit.cm      -> LengthUnit.in
       [] u = LengthUnit.in      -> LengthUnit.cm
       [] u = ForceUnit.kgf      -> ForceUnit.lbf
       [] u = ForceUnit.lbf      -> SpringRateUnit.kgf
       [] u = SpeedUnit.kph      -> SpeedUnit.mph
       [] u = SpeedUnit.mph      -> SpeedUnit.kph]

switchUnitMap ==
  [u \in UnitOfMeasure |->
     CASE u = PressureUnit.bar   -> PressureUnit.psi
       [] u = PressureUnit.psi   -> PressureUnit.bar
       [] u = SpringRateUnit.kgf -> SpringRateUnit.lbs
       [] u = SpringRateUnit.lbs -> SpringRateUnit.kgf
       [] u = LengthUnit.cm      -> LengthUnit.in
       [] u = LengthUnit.in      -> LengthUnit.cm
       [] u = ForceUnit.kgf      -> ForceUnit.lbf
       [] u = ForceUnit.lbf      -> ForceUnit.kgf
       [] u = SpeedUnit.kph      -> SpeedUnit.mph
       [] u = SpeedUnit.mph      -> SpeedUnit.kph]

\* switchUnitMap[unit]: a property read, undefined for a key the map lacks
switchUnit(u) == IF u \in DOMAIN switchUnitMap THEN switchUnitMap[u] ELSE undefined

----------------------------------------------------------------------------
(* String and array methods of JavaScript used by the generators           *)

\* the JavaScript value null
null == "<null>"

\* the degree sign U+00B0, one character long (written in ASCII here)
Degree == "~"

\* c repeated n times; "" for n <= 0
RECURSIVE Repeat(_, _)
Repeat(c, n) == IF n <= 0 THEN "" ELSE c \o Repeat(c, n - 1)

\* String.prototype.padEnd / padStart with blanks
padEnd(s0, width) == The({ s \o Repeat(" ", width - Len(s)) : s \in {s0} })

padStart(s0, width) == The({ Repeat(" ", width - Len(s)) \o s : s \in {s0} })

\* String.prototype.trim
trim(s0) ==
  The({ LET nb == {i \in 1..Len(s) : CharAt(s, i) \notin {" ", "\t", "\n"}}
        IN  IF nb = {} THEN ""
            ELSE SubSeq(s, CHOOSE i \in nb : \A j \in nb : i <= j,
                           CHOOSE i \in nb : \A j \in nb : j <= i)
        : s \in {s0} })

\* Array.prototype.join, of the elements lo..hi: the two halves are joined
\* separately, which keeps the evaluation shallow for a long array
RECURSIVE JoinRange(_, _, _, _)
JoinRange(a, sep, lo, hi) ==
  IF lo > hi THEN ""
  ELSE IF lo = hi THEN a[lo]
  ELSE The({ JoinRange(a, sep, lo, mid) \o sep \o JoinRange(a, sep, mid + 1, hi)
             : mid \in {(lo + hi) \div 2} })

Join(a0, sep) == The({ JoinRange(a, sep, 1, Len(a)) : a \in {a0} })

\* String.prototype.replace(/\*\*/g, ''), from position i on
RECURSIVE RemoveStarsFrom(_, _)
RemoveStarsFrom(s, i) ==
  IF i > Len(s) THEN ""
  ELSE IF i < Len(s) /\ SubSeq(s, i, i + 1) = "**" THEN RemoveStarsFrom(s, i + 2)
  ELSE CharAt(s, i) \o RemoveStarsFrom(s, i + 1)

\* does the text s contain the text sub
Contains(s, sub) ==
  \E i \in 1..(Len(s) - Len(sub) + 1) : SubSeq(s, i, i + Len(sub) - 1) = sub

\* the concatenation of the arrays of an array of arrays (what the spread
\* syntax [...a, ...b] builds)
RECURSIVE FlatRange(_, _, _)
FlatRange(a, lo, hi) ==
  IF lo > hi THEN <<>>
  ELSE IF lo = hi THEN a[lo]
  ELSE The({ FlatRange(a, lo, mid) \o FlatRange(a, mid + 1, hi)
             : mid \in {(lo + hi) \div 2} })

Flat(a0) == The({ FlatRange(a, 1, Len(a)) : a \in {a0} })

\* a || b on strings
OrElse(a, b) == IF a # "" THEN a ELSE b

\* object.na as a condition: false when the object has no such property
IsNa(object) == IF "na" \in DOMAIN object THEN object.na ELSE FALSE

----------------------------------------------------------------------------
(* change-case: capitalCase(key) of a camelCase property name              *)

UpperCase == "ABCDEFGHIJKLMNOPQRSTUVWXYZ"

LowerCase == "abcdefghijklmnopqrstuvwxyz"

IsUpper(c) == \E i \in 1..26 : CharAt(UpperCase, i) = c

ToUpper(c) ==
  IF \E i \in 1..26 : CharAt(LowerCase, i) = c
  THEN CharAt(UpperCase, CHOOSE i \in 1..26 : CharAt(LowerCase, i) = c)
  ELSE c

\* a blank before every capital, from position i on
RECURSIVE SplitWordsFrom(_, _)
SplitWordsFrom(s, i) ==
  IF i > Len(s) THEN ""
  ELSE (IF IsUpper(CharAt(s, i)) THEN " " ELSE "")
         \o CharAt(s, i) \o SplitWordsFrom(s, i + 1)

capitalCase(key) ==
  IF key = "" THEN "" ELSE ToUpper(CharAt(key, 1)) \o SplitWordsFrom(key, 2)

----------------------------------------------------------------------------
(* lib/utils and lib/unitsOfMeasure are not among the source files; these  *)
(* follow the specification (sections 4.1, 4.3, 4.4 and 6)                 *)

\* formatFloat(value, precision, suffix): a blank stays blank; anything else
\* is ensureFloat(value) in fixed-point notation, followed by the suffix
formatFloat(value0, precision, suffix) ==
  The({ IF v = "" THEN "" ELSE toFixed(ensureFloat(JSString(v)), precision) \o suffix
        : v \in {value0} })

\* addSuffix(n): the English ordinal suffix of n
addSuffix(n) ==
  IF (n % 100) \in {11, 12, 13} THEN "th"
  ELSE CASE n % 10 = 1 -> "st" [] n % 10 = 2 -> "nd" [] n % 10 = 3 -> "rd"
         [] OTHER -> "th"

\* formatUnit(value, unit, precision, showUnit): [primary, secondary], the
\* value in its unit and converted to the opposite unit; a blank value gives
\* the blank pair
formatUnit(value0, units, precision, showUnit) ==
  The({ IF IsJSString(v) /\ v.str = "" THEN <<"", "">>
        ELSE << toFixed(ensureFloat(v), precision)
                  \o (IF showUnit THEN " " \o units ELSE ""),
                convertTo(v, switchUnit(units), precision)
                  \o (IF showUnit THEN " " \o switchUnit(units) ELSE "") >>
        : v \in {value0} })

\* formatUnitHeaders(unit): [label, oppositeLabel]
formatUnitHeaders(units) == <<units, switchUnit(units)>>

WeightUnit == [kg |-> "kg", lbs |-> "lbs"]

PowerUnit == [kw |-> "kw", hp |-> "hp"]

TorqueUnit == [nm |-> "nm", lbft |-> "lb-ft"]

\* getUnitsForGlobalUnit(globalUnit): the units of the statistics
getUnitsForGlobalUnit(globalUnit) ==
  IF globalUnit = "Metric"
  THEN [weight |-> WeightUnit.kg, power |-> PowerUnit.kw,
        torque |-> TorqueUnit.nm, speed |-> SpeedUnit.kph]
  ELSE [weight |-> WeightUnit.lbs, power |-> PowerUnit.hp,
        torque |-> TorqueUnit.lbft, speed |-> SpeedUnit.mph]

Upgrade == [stock |-> "Stock", race |-> "Race", na |-> "N/A"]

LimitedUpgrade == [stock |-> "Stock"]

FMFullUpgrade == [stock |-> "Stock"]

LimitedTransmissionUpgrade == [stock |-> "Stock"]

BallastType == [none |-> "None"]

FMTireCompound == [stock |-> "Stock"]

TrackWidthType == [first |-> "1"]

DriveType == [stock |-> "Stock", awd |-> "AWD"]

----------------------------------------------------------------------------
(* src/src/components/formatter/motorsport/FMSetup.ts                      *)

FMPIClass == [E |-> "E", D |-> "D", C |-> "C", B |-> "B", A |-> "A",
              S |-> "S", R |-> "R", P |-> "P", X |-> "X"]

\* the number of entries of gears.ratios: the final drive and ten gears
NumRatios == 11

getFMDefaultFormV2 ==
  [year |-> "", make |-> "", model |-> "",
   stats |->
     [pi |-> 700, classification |-> FMPIClass.A, carPoints |-> "", hp |-> "",
      torque |-> "", weight |-> "", balance |-> "", topSpeed |-> "",
      zeroToSixty |-> "", zeroToHundred |-> "", shareCode |-> ""],
   upgrades |->
     [fuelAndAir |->
        [fuelSystem |-> Upgrade.stock, carburator |-> Upgrade.stock,
         ignition |-> Upgrade.stock, exhaust |-> Upgrade.stock,
         airFilter |-> Upgrade.stock, intakeManifold |-> Upgrade.stock,
         restrictorPlate |-> "",
         centrifugalSupercharger |-> LimitedUpgrade.stock,
         singleTurbo |-> LimitedUpgrade.stock, twinTurbo |-> LimitedUpgrade.stock,
         supercharger |-> LimitedUpgrade.stock, intercooler |-> LimitedUpgrade.stock],
      engine |->
        [camshaft |-> Upgrade.stock, valves |-> Upgrade.stock,
         displacement |-> Upgrade.stock, pistons |-> Upgrade.stock,
         flywheel |-> Upgrade.stock, oilAndCooling |-> Upgrade.stock,
         motorAndBattery |-> Upgrade.na],
      platformAndHandling |->
        [brakes |-> Upgrade.stock, springs |-> FMFullUpgrade.stock,
         frontArb |-> Upgrade.stock, rearArb |-> Upgrade.stock,
         weightReduction |-> Upgrade.stock, chassisReinforcement |-> Upgrade.stock,
         ballast |-> BallastType.none],
      tires |->
        [width |-> [front |-> "", rear |-> ""],
         compound |-> FMTireCompound.stock,
         trackWidth |-> [front |-> TrackWidthType.first, rear |-> TrackWidthType.first]],
      wheels |-> [style |-> "", size |-> [front |-> "", rear |-> ""]],
      drivetrain |->
        [clutch |-> Upgrade.stock, transmission |-> LimitedTransmissionUpgrade.stock,
         differential |-> FMFullUpgrade.stock, driveline |-> Upgrade.stock],
      aeroAndAppearance |->
        [frontBumper |-> "", rearBumper |-> "", rearWing |-> "",
         sideSkirts |-> "", hood |-> ""],
      conversions |->
        [aspiration |-> "", bodyKit |-> "", engine |-> "",
         drivetrain |-> DriveType.stock]],
   tune |->
     [tires |-> [front |-> "", rear |-> "", units |-> PressureUnit.bar],
      gears |-> [ratios |-> [i \in 1..NumRatios |-> ""], na |-> FALSE],
      alignment |->
        [camber |-> [front |-> "", rear |-> ""],
         toe |-> [front |-> "", rear |-> ""],
         caster |-> "", steeringAngle |-> "", na |-> FALSE],
      arb |-> [front |-> "", rear |-> "", na |-> FALSE],
      springs |-> [front |-> "", rear |-> "", units |-> SpringRateUnit.kgfmm, na |-> FALSE],
      rideHeight |-> [front |-> "", rear |-> "", units |-> LengthUnit.cm, na |-> FALSE],
      rebound |-> [front |-> "", rear |-> "", na |-> FALSE],
      bump |-> [front |-> "", rear |-> "", na |-> FALSE],
      rollCenterHeightOffset |->
        [front |-> "", rear |-> "", units |-> LengthUnit.cm, na |-> FALSE],
      antiGeometryPercent |-> [front |-> "", rear |-> "", na |-> FALSE],
      aero |-> [front |-> "", rear |-> "", units |-> ForceUnit.kgf, na |-> FALSE],
      brake |-> [na |-> FALSE, bias |-> "", pressure |-> ""],
      diff |->
        [front |-> [accel |-> "", decel |-> ""],
         rear |-> [accel |-> "", decel |-> ""],
         center |-> "", na |-> FALSE],
      steeringWheel |-> [na |-> TRUE, ffbScale |-> "", steeringLockRange |-> ""]]]

\* the property names of the objects the generators enumerate, in the order
\* the object literals write them (getFMDefaultFormV2 for the upgrade groups,
\* formatTireUpgrades and formatWheelUpgrades of the chat generator for theirs)
KeyOrder ==
  << "fuelSystem", "carburator", "ignition", "exhaust", "airFilter",
     "intakeManifold", "restrictorPlate", "centrifugalSupercharger",
     "singleTurbo", "twinTurbo", "supercharger", "intercooler",
     "camshaft", "valves", "displacement", "pistons", "flywheel",
     "oilAndCooling", "motorAndBattery",
     "brakes", "springs", "frontArb", "rearArb", "weightReduction",
     "chassisReinforcement", "ballast",
     "compound", "width", "style", "size",
     "clutch", "transmission", "differential", "driveline",
     "frontBumper", "rearBumper", "rearWing", "sideSkirts", "hood",
     "aspiration", "bodyKit", "engine", "drivetrain" >>

\* Object.keys(section)
ObjectKeys(section) == SelectSeq(KeyOrder, LAMBDA key : key \in DOMAIN section)

----------------------------------------------------------------------------
(* src/src/components/formatter/motorsport/fm-discord-generator.ts: the    *)
(* terse generator for chat (prefix D_)                                    *)

D_tableSeparator == ""

D_bold(value0) ==
  The({ IF v = "" THEN v ELSE "** " \o RemoveStarsFrom(v, 1) \o " **" : v \in {value0} })

D_h1(t) == "== " \o t \o " ==\n"

D_h2(t) == "-- " \o t \o " --"

D_falseyValues == {null, undefined, "", "N/A", "Stock", "None"}

D_showValue(v) == v \notin D_falseyValues

D_showFrontRearValues(values) == D_showValue(values.front) \/ D_showValue(values.rear)

D_TextAlign == [left |-> ":--", right |-> "--:", center |-> ":-:"]

\* widths[index] after the two forEach loops: the widest cell of the column
\* for a column of rows[0]; a later column starts as undefined, so Math.max
\* makes it NaN, a width that pads nothing (0 here)
D_getColumnWidths(rows0) ==
  The({ [index \in 1..(CHOOSE n \in {Len(rows[r]) : r \in 1..Len(rows)} :
                          \A r \in 1..Len(rows) : Len(rows[r]) <= n) |->
           IF index <= Len(rows[1])
           THEN CHOOSE w \in {0} \cup {Len(rows[r][index]) :
                                         r \in {q \in 1..Len(rows) : index <= Len(rows[q])}} :
                  \A r \in 1..Len(rows) : index <= Len(rows[r]) => Len(rows[r][index]) <= w
           ELSE 0]
        : rows \in {rows0} })

D_formatTableRow(row0, widths0, alignment) ==
  The({ trim(Join([index \in 1..Len(row) |->
                     IF row[index] = "/" THEN row[index]
                     ELSE IF alignment = D_TextAlign.center
                       THEN padEnd(padStart(row[index], widths[index] \div 2), widths[index])
                     ELSE IF alignment = D_TextAlign.left
                       THEN padEnd(row[index], widths[index])
                     ELSE padStart(row[index], widths[index])], " "))
        : row \in {row0}, widths \in {widths0} })

D_formatTable(header, body0, alignment) ==
  The({ IF Len(body) = 0 THEN <<>>
        ELSE The({ (IF header # "" THEN <<D_h2(header)>> ELSE <<>>)
                     \o [r \in 1..Len(body) |-> D_formatTableRow(body[r], widths, alignment)]
                     \o <<D_tableSeparator>>
                   : widths \in {D_getColumnWidths(body)} })
        : body \in {body0} })

\* formatFrontRear without the test of values.na
D_formatFrontRear_ignoreNa(header, values, precision, suffix, alignment) ==
  IF ~D_showFrontRearValues(values) THEN <<>>
  ELSE D_formatTable(header,
                     << <<"F ", formatFloat(values.front, precision, suffix)>>,
                        <<"R ", formatFloat(values.rear, precision, suffix)>> >>,
                     alignment)

D_formatFrontRear(header, values, precision, suffix, alignment) ==
  IF IsNa(values) \/ ~D_showFrontRearValues(values) THEN <<>>
  ELSE D_formatTable(header,
                     << <<"F ", formatFloat(values.front, precision, suffix)>>,
                        <<"R ", formatFloat(values.rear, precision, suffix)>> >>,
                     alignment)

\* separate(values, separator): the separator between every two values
D_separate(values0, separator) ==
  The({ Flat([index \in 1..Len(values) |->
                IF index < Len(values) THEN <<values[index], separator>>
                ELSE <<values[index]>>])
        : values \in {values0} })

\* the front row reads 0 for a front value 'Stock'; the rear row reads 0 when
\* the FRONT value is 'Stock'
D_formatFrontRearWithUnit(header, v, precision, showAll) ==
  IF IsNa(v) THEN <<>>
  ELSE The({ IF Len(body) = 0 THEN <<>>
             ELSE D_formatTable(header, body, D_TextAlign.right)
             : body \in {
                 (IF showAll \/ D_showValue(v.front)
                  THEN << <<"F ">> \o D_separate(
                            formatUnit(IF v.front = "Stock" THEN Zero ELSE JSString(v.front),
                                       v.units, precision, TRUE), "/") >>
                  ELSE <<>>)
                 \o
                 (IF showAll \/ D_showValue(v.rear)
                  THEN << <<"R ">> \o D_separate(
                            formatUnit(IF v.front = "Stock" THEN Zero ELSE JSString(v.rear),
                                       v.units, precision, TRUE), "/") >>
                  ELSE <<>>) } })

D_formatTires(tune) ==
  The({ IF Len(table) = 0 THEN <<>>
        ELSE <<D_h1("Tires")>> \o D_formatFrontRearWithUnit("", tune.tires, 1, FALSE)
        : table \in {D_formatFrontRearWithUnit("", tune.tires, 1, FALSE)} })

\* the for loop with `continue` in place of `break`: the rejected ratios are
\* skipped and the later ones still get a row
RECURSIVE D_formatGearsLoop_compact(_, _, _)
D_formatGearsLoop_compact(ratios, index, body) ==
  IF index >= Len(ratios) THEN body
  ELSE IF ~D_showValue(ratios[index + 1])
    THEN The({ D_formatGearsLoop_compact(ratios, next, body) : next \in {index + 1} })
  ELSE The({ D_formatGearsLoop_compact(ratios, next, more) :
             more \in {Append(body, <<ToString(index) \o addSuffix(index),
                                      toFixed(parseFloat(ratios[index + 1]), 2)>>)},
             next \in {index + 1} })

\* the for loop of formatGears from `index` on: one row per ratio, up to the
\* first ratio showValue rejects
RECURSIVE D_formatGearsLoop(_, _, _)
D_formatGearsLoop(ratios, index, body) ==
  IF index >= Len(ratios) THEN body
  ELSE IF ~D_showValue(ratios[index + 1]) THEN body
  ELSE The({ D_formatGearsLoop(ratios, next, more) :
             more \in {Append(body, <<ToString(index) \o addSuffix(index),
                                      toFixed(parseFloat(ratios[index + 1]), 2)>>)},
             next \in {index + 1} })

\* formatGears without the early return for a blank final drive
D_formatGears_always(tune) ==
  IF tune.gears.na THEN <<>>
  ELSE <<D_h1("Gearing")>>
         \o D_formatTable("",
               D_formatGearsLoop(tune.gears.ratios, 1,
                 << <<"FR", toFixed(parseFloat(tune.gears.ratios[1]), 2)>> >>),
               D_TextAlign.left)

\* ratios[0] of the code is ratios[1] here
D_formatGears(tune) ==
  IF tune.gears.na THEN <<>>
  ELSE The({ IF Len(body) = 1 /\ tune.gears.ratios[1] = "" THEN <<>>
             ELSE <<D_h1("Gearing")>> \o D_formatTable("", body, D_TextAlign.left)
             : body \in {D_formatGearsLoop(tune.gears.ratios, 1,
                           << <<"FR", toFixed(parseFloat(tune.gears.ratios[1]), 2)>> >>)} })

D_formatAlignment(tune) ==
  IF tune.alignment.na THEN <<>>
  ELSE The({ IF Len(lines0) = 0 THEN <<>>
             ELSE <<D_h1("Alignment")>> \o lines0
                    \o (IF D_showValue(tune.alignment.caster)
                           \/ D_showValue(tune.alignment.steeringAngle)
                        THEN <<"">> ELSE <<>>)
             : lines0 \in {
                 (IF tune.alignment.camber.front # "" \/ tune.alignment.camber.rear # ""
                  THEN D_formatFrontRear("Camber", tune.alignment.camber, 1, Degree,
                                         D_TextAlign.right)
                  ELSE <<>>)
                 \o (IF tune.alignment.toe.front # "" \/ tune.alignment.toe.rear # ""
                     THEN D_formatFrontRear("Toe", tune.alignment.toe, 1, Degree,
                                            D_TextAlign.right)
                     ELSE <<>>)
                 \o (IF D_showValue(tune.alignment.caster)
                     THEN <<"Caster " \o tune.alignment.caster \o Degree>> ELSE <<>>)
                 \o (IF D_showValue(tune.alignment.steeringAngle)
                     THEN <<"Steering Angle " \o tune.alignment.steeringAngle \o Degree>>
                     ELSE <<>>) } })

D_formatAntiRollbars(tune) ==
  IF tune.arb.na \/ ~D_showFrontRearValues(tune.arb) THEN <<>>
  ELSE <<D_h1("Anti-roll Bars")>>
         \o D_formatFrontRear("", tune.arb, 1, "", D_TextAlign.left)

D_formatSprings(tune) ==
  IF tune.springs.na THEN <<>>
  ELSE The({ IF Len(lines0) = 0 THEN <<>> ELSE <<D_h1("Springs")>> \o lines0
             : lines0 \in {
                 (IF D_showFrontRearValues(tune.springs)
                  THEN D_formatFrontRearWithUnit("Springs", tune.springs, 1, FALSE)
                  ELSE <<>>)
                 \o (IF D_showFrontRearValues(tune.rideHeight)
                     THEN D_formatFrontRearWithUnit("Ride Height", tune.rideHeight, 1, FALSE)
                     ELSE <<>>) } })

\* formatDamping without the return of [] for a heading alone
D_formatDamping_headingAlone(tune) ==
  IF tune.rebound.na /\ tune.bump.na THEN <<>>
  ELSE <<D_h1("Damping")>>
         \o (IF D_showFrontRearValues(tune.bump)
             THEN D_formatFrontRear("Bump", tune.bump, 1, "", D_TextAlign.left)
             ELSE <<>>)
         \o (IF D_showFrontRearValues(tune.rebound)
             THEN D_formatFrontRear("Rebound", tune.rebound, 1, "", D_TextAlign.left)
             ELSE <<>>)

D_formatDamping(tune) ==
  IF tune.rebound.na /\ tune.bump.na THEN <<>>
  ELSE The({ IF Len(lines0) = 1 THEN <<>> ELSE lines0
             : lines0 \in {
                 <<D_h1("Damping")>>
                 \o (IF D_showFrontRearValues(tune.bump)
                     THEN D_formatFrontRear("Bump", tune.bump, 1, "", D_TextAlign.left)
                     ELSE <<>>)
                 \o (IF D_showFrontRearValues(tune.rebound)
                     THEN D_formatFrontRear("Rebound", tune.rebound, 1, "", D_TextAlign.left)
                     ELSE <<>>) } })

D_formatSuspensionGeometry(tune) ==
  IF tune.rollCenterHeightOffset.na /\ tune.antiGeometryPercent.na THEN <<>>
  ELSE The({ IF Len(lines0) = 1 THEN <<>> ELSE lines0
             : lines0 \in {
                 <<D_h1("Suspension Geometry")>>
                 \o (IF D_showFrontRearValues(tune.rollCenterHeightOffset)
                     THEN D_formatFrontRearWithUnit("Roll Center Offset",
                                                    tune.rollCenterHeightOffset, 1, FALSE)
                     ELSE <<>>)
                 \o (IF D_showFrontRearValues(tune.antiGeometryPercent)
                     THEN D_formatFrontRear("Anti-Geometry", tune.antiGeometryPercent, 1, "%",
                                            D_TextAlign.left)
                     ELSE <<>>) } })

D_formatAero(tune) ==
  IF tune.aero.na THEN <<>>
  ELSE The({ IF Len(lines0) = 1 THEN <<>> ELSE lines0
             : lines0 \in {<<D_h1("Aero")>>
                             \o D_formatFrontRearWithUnit("", tune.aero, 1, FALSE)} })

\* formatBrakes without the comparison of the pressure with '100'
D_formatBrakes_noDefault(tune) ==
  IF tune.brake.na THEN <<>>
  ELSE The({ IF Len(lines0) = 0 THEN <<>>
             ELSE <<D_h1("Brakes")>> \o D_formatTable("", lines0, D_TextAlign.left)
             : lines0 \in {
                 (IF D_showValue(tune.brake.bias) /\ tune.brake.bias # "50"
                  THEN << <<"Balance", formatFloat(tune.brake.bias, 0, "%")>> >> ELSE <<>>)
                 \o (IF D_showValue(tune.brake.pressure)
                     THEN << <<"Pressure", formatFloat(tune.brake.pressure, 0, "%")>> >>
                     ELSE <<>>) } })

D_formatBrakes(tune) ==
  IF tune.brake.na THEN <<>>
  ELSE The({ IF Len(lines0) = 0 THEN <<>>
             ELSE <<D_h1("Brakes")>> \o D_formatTable("", lines0, D_TextAlign.left)
             : lines0 \in {
                 (IF D_showValue(tune.brake.bias) /\ tune.brake.bias # "50"
                  THEN << <<"Balance", formatFloat(tune.brake.bias, 0, "%")>> >> ELSE <<>>)
                 \o (IF D_showValue(tune.brake.pressure) /\ tune.brake.pressure # "100"
                     THEN << <<"Pressure", formatFloat(tune.brake.pressure, 0, "%")>> >>
                     ELSE <<>>) } })

\* formatDiffLine that also hides a value of '50', as formatDifferential does
\* for the center
D_formatDiffLine_default50(label, setting) ==
  The({ IF line[2] = "-" /\ line[3] = "-" THEN <<>> ELSE line
        : line \in {<<label,
                      IF D_showValue(setting.accel) /\ setting.accel # "50"
                      THEN formatFloat(setting.accel, 0, "%") ELSE "-",
                      IF D_showValue(setting.decel) /\ setting.decel # "50"
                      THEN formatFloat(setting.decel, 0, "%") ELSE "-">>} })

D_formatDiffLine(label, setting) ==
  The({ IF line[2] = "-" /\ line[3] = "-" THEN <<>> ELSE line
        : line \in {<<label,
                      IF D_showValue(setting.accel)
                      THEN formatFloat(setting.accel, 0, "%") ELSE "-",
                      IF D_showValue(setting.decel)
                      THEN formatFloat(setting.decel, 0, "%") ELSE "-">>} })

D_formatDifferential(diff, driveType) ==
  IF diff.na THEN <<>>
  ELSE The({ IF Len(lines0) = 0 THEN <<>> ELSE <<D_h1("Differential")>> \o lines0
             : lines0 \in {
                 The({ IF Len(body) # 0
                       THEN D_formatTable("", << <<"-", "Accel", "Decel">> >> \o body,
                                          D_TextAlign.left)
                       ELSE <<>>
                       : body \in {
                           The({ IF Len(front) # 0 THEN <<front>> ELSE <<>>
                                 : front \in {D_formatDiffLine("F ", diff.front)} })
                           \o The({ IF Len(rear) # 0 THEN <<rear>> ELSE <<>>
                                    : rear \in {D_formatDiffLine("R ", diff.rear)} }) } })
                 \o (IF D_showValue(diff.center) /\ diff.center # "50"
                     THEN <<"Center " \o formatFloat(diff.center, 0, "%"), "">>
                     ELSE <<>>) } })

D_formatSteeringWheel(tune) ==
  IF tune.steeringWheel.na THEN <<>>
  ELSE The({ IF Len(lines0) = 0 THEN <<>>
             ELSE <<D_h1("Steering Wheel")>> \o D_formatTable("", lines0, D_TextAlign.left)
             : lines0 \in {
                 (IF D_showValue(tune.steeringWheel.ffbScale)
                       /\ tune.steeringWheel.ffbScale # "100"
                  THEN << <<"FFB Scale", tune.steeringWheel.ffbScale>> >> ELSE <<>>)
                 \o (IF D_showValue(tune.steeringWheel.steeringLockRange)
                          /\ tune.steeringWheel.steeringLockRange # "900"
                     THEN << <<"Steering Lock", tune.steeringWheel.steeringLockRange>> >>
                     ELSE <<>>) } })

D_formatTune(form0, model) ==
  D_formatTires(form0.tune)
    \o D_formatGears(form0.tune)
    \o D_formatAlignment(form0.tune)
    \o D_formatAntiRollbars(form0.tune)
    \o D_formatSprings(form0.tune)
    \o D_formatDamping(form0.tune)
    \o D_formatSuspensionGeometry(form0.tune)
    \o D_formatAero(form0.tune)
    \o D_formatBrakes(form0.tune)
    \o D_formatDifferential(form0.tune.diff, form0.upgrades.conversions.drivetrain)
    \o D_formatSteeringWheel(form0.tune)

D_labelMap ==
  [chassisReinforcement |-> "Chassis", frontArb |-> "ARB F", rearArb |-> "ARB R",
   weightReduction |-> "Weight", differential |-> "Diff", frontBumper |-> "F Bumper",
   rearBumper |-> "R Bumper", rearWing |-> "R Wing"]

D_formatLabel(label) ==
  IF label \in DOMAIN D_labelMap THEN D_labelMap[label] ELSE capitalCase(label)

D_formatUpgradesSection(header, section) ==
  The({ IF Len(rows) = 0 THEN <<>>
        ELSE <<D_h1(header)>> \o D_formatTable("", rows, D_TextAlign.left)
        : rows \in {
            The({ [i \in 1..Len(keys) |-> <<D_formatLabel(keys[i]), section[keys[i]]>>]
                  : keys \in {SelectSeq(ObjectKeys(section),
                                        LAMBDA key : D_showValue(section[key]))} }) } })

D_formatTireUpgrades(upgrades) ==
  D_formatUpgradesSection("Tires",
    [compound |-> upgrades.tires.compound,
     width |-> IF D_showFrontRearValues(upgrades.tires.width)
               THEN "F " \o OrElse(upgrades.tires.width.front, "Stock")
                      \o " / R " \o OrElse(upgrades.tires.width.rear, "Stock")
               ELSE ""])

D_formatWheelUpgrades(upgrades) ==
  D_formatUpgradesSection("Wheels",
    [style |-> upgrades.wheels.style,
     size |-> IF D_showFrontRearValues(upgrades.wheels.size)
              THEN "F " \o OrElse(upgrades.wheels.size.front, "Stock")
                     \o " / R " \o OrElse(upgrades.wheels.size.rear, "Stock")
              ELSE ""])

D_formatUpgrades(upgrades, driveType) ==
  D_formatUpgradesSection("Conversions", upgrades.conversions)
    \o D_formatUpgradesSection("Fuel and Air", upgrades.fuelAndAir)
    \o D_formatUpgradesSection("Engine", upgrades.engine)
    \o D_formatUpgradesSection("Platform And Handling", upgrades.platformAndHandling)
    \o D_formatTireUpgrades(upgrades)
    \o D_formatWheelUpgrades(upgrades)
    \o D_formatUpgradesSection("Drivetrain", upgrades.drivetrain)
    \o D_formatUpgradesSection("Aero and Appearance", upgrades.aeroAndAppearance)

D_formatUnitWithSeparator(v, units, precision, showUnit) ==
  D_separate(formatUnit(v, units, precision, showUnit), "/")

D_formatStatistics(form0, globalUnit) ==
  The({ IF Len(stats) = 0 THEN <<>> ELSE D_formatTable("", stats, D_TextAlign.left)
        : stats \in {
            The({ (IF form0.stats.carPoints # ""
                   THEN << <<"CP", form0.stats.carPoints, "">> >> ELSE <<>>)
                  \o (IF form0.stats.hp # ""
                      THEN << <<"Power">> \o D_formatUnitWithSeparator(
                                JSString(form0.stats.hp), units.power, 0, TRUE) >>
                      ELSE <<>>)
                  \o (IF form0.stats.torque # ""
                      THEN << <<"Torque">> \o D_formatUnitWithSeparator(
                                JSString(form0.stats.torque), units.torque, 0, TRUE) >>
                      ELSE <<>>)
                  \o (IF form0.stats.weight # ""
                      THEN << <<"Weight">> \o D_formatUnitWithSeparator(
                                JSString(form0.stats.weight), units.weight, 0, TRUE) >>
                      ELSE <<>>)
                  \o (IF form0.stats.balance # ""
                      THEN << <<"Balance", form0.stats.balance \o "%">> >> ELSE <<>>)
                  \o (IF form0.stats.topSpeed # ""
                      THEN << <<"Top Speed">> \o D_formatUnitWithSeparator(
                                JSString(form0.stats.topSpeed), units.speed, 0, TRUE) >>
                      ELSE <<>>)
                  \o (IF form0.stats.zeroToSixty # ""
                      THEN << <<"0-60", form0.stats.zeroToSixty \o "s">> >> ELSE <<>>)
                  \o (IF form0.stats.zeroToHundred # ""
                      THEN << <<"0-100", form0.stats.zeroToHundred \o "s">> >> ELSE <<>>)
                  : units \in {getUnitsForGlobalUnit(globalUnit)} }) } })

\* the line of three backquotes that opens and closes a code block (written
\* with apostrophes here)
CodeFence == "'''"

D_formatHeader(form0) ==
  "**" \o Join(<<Join(SelectSeq(<<form0.year, form0.make, form0.model>>,
                                LAMBDA val : val # ""), " "),
                 form0.stats.classification \o " " \o ToString(form0.stats.pi)>>, " - ")
       \o "**\n"

\* the generator with the tune block ahead of the upgrades block
fmDiscordGenerator_tuneFirst(form0, globalUnit, linkUrl) ==
  Join(<<D_formatHeader(form0)>>
       \o The({ IF Len(stats) # 0
                THEN <<D_bold("Stats"), CodeFence>> \o stats \o <<CodeFence>> ELSE <<>>
                : stats \in {D_formatStatistics(form0, globalUnit)} })
       \o The({ IF Len(tune) # 0
                THEN <<D_bold("Tune"), CodeFence>> \o tune \o <<CodeFence>> ELSE <<>>
                : tune \in {D_formatTune(form0, form0.model)} })
       \o The({ IF Len(upgrades) # 0
                THEN <<D_bold("Upgrades"), CodeFence>> \o upgrades \o <<CodeFence>> ELSE <<>>
                : upgrades \in {D_formatUpgrades(form0.upgrades,
                                                 form0.upgrades.conversions.drivetrain)} })
       \o <<"Formatted using:", "https://optn.club/formatter/forza/motorsport/v3">>,
       "\n")

fmDiscordGenerator(form0, globalUnit, linkUrl) ==
  Join(<<D_formatHeader(form0)>>
       \o The({ IF Len(stats) # 0
                THEN <<D_bold("Stats"), CodeFence>> \o stats \o <<CodeFence>> ELSE <<>>
                : stats \in {D_formatStatistics(form0, globalUnit)} })
       \o The({ IF Len(upgrades) # 0
                THEN <<D_bold("Upgrades"), CodeFence>> \o upgrades \o <<CodeFence>> ELSE <<>>
                : upgrades \in {D_formatUpgrades(form0.upgrades,
                                                 form0.upgrades.conversions.drivetrain)} })
       \o The({ IF Len(tune) # 0
                THEN <<D_bold("Tune"), CodeFence>> \o tune \o <<CodeFence>> ELSE <<>>
                : tune \in {D_formatTune(form0, form0.model)} })
       \o <<"Formatted using:", "https://optn.club/formatter/forza/motorsport/v3">>,
       "\n")

----------------------------------------------------------------------------
(* src/src/lib/conversions.ts, lines 211-618: the markdown generator       *)
(* (prefix R_)                                                             *)

R_tableSeparator == "\n######\n"

R_bold(value0) ==
  The({ IF v = "" THEN v ELSE "**" \o RemoveStarsFrom(v, 1) \o "**" : v \in {value0} })

R_formatTableRow(row0, boldFirstCol) ==
  The({ "|" \o Join(IF boldFirstCol /\ Len(row) > 0
                    THEN <<R_bold(row[1])>> \o SubSeq(row, 2, Len(row))
                    ELSE row, "|") \o "|"
        : row \in {row0} })

R_falseyValues == {null, undefined, "", "N/A", "Stock", "None"}

\* showValue that also hides the numeric default '50'
R_showValue_default50(v) == v \notin R_falseyValues \cup {"50"}

R_showValue(v) == v \notin R_falseyValues

R_TextAlign == [left |-> ":--", right |-> "--:", center |-> ":-:"]

\* the header row, the alignment row (one marker per header cell, two at
\* least), the rows of the body and the separator
R_formatTable(header0, body0, boldFirstCol, textAlign) ==
  The({ << R_formatTableRow([i \in 1..Len(header) |-> R_bold(header[i])], FALSE),
           R_formatTableRow(<<":--", textAlign>>
                              \o [i \in 1..(Len(header) - 2) |-> textAlign], FALSE) >>
          \o [r \in 1..Len(body) |-> R_formatTableRow(body[r], boldFirstCol)]
          \o <<R_tableSeparator>>
        : header \in {header0}, body \in {body0} })

R_formatFrontRear(headers, values0, precision, suffix) ==
  The({ IF \A i \in 1..Len(values) : IsNa(values[i])
        THEN R_formatTable(headers,
                           << <<"Not Applicable">> \o [i \in 1..Len(values) |-> ""] >>,
                           FALSE, R_TextAlign.right)
        ELSE R_formatTable(headers,
               << <<"Front">> \o [i \in 1..Len(values) |->
                                    formatFloat(values[i].front, precision, suffix)],
                  <<"Rear">> \o [i \in 1..Len(values) |->
                                   formatFloat(values[i].rear, precision, suffix)] >>,
               FALSE, R_TextAlign.right)
        : values \in {values0} })

R_formatFrontRearWithUnit(header, v, precision) ==
  IF IsNa(v)
  THEN R_formatTable(<<header>> \o formatUnitHeaders(v.units),
                     << <<"Not Applicable">> \o formatUnit(JSString(""), v.units, precision, FALSE) >>,
                     FALSE, R_TextAlign.right)
  ELSE R_formatTable(<<header>> \o formatUnitHeaders(v.units),
                     << <<"Front">> \o formatUnit(JSString(v.front), v.units, precision, FALSE),
                        <<"Rear">> \o formatUnit(JSString(v.rear), v.units, precision, FALSE) >>,
                     FALSE, R_TextAlign.right)

R_formatTires(tune) == R_formatFrontRearWithUnit("Tires", tune.tires, 1)

\* the for loop of formatGears from `index` on: one row per ratio, up to the
\* first ratio whose parseFloat is 0 or NaN
RECURSIVE R_formatGearsLoop(_, _, _)
R_formatGearsLoop(ratios, index, body) ==
  IF index >= Len(ratios) THEN body
  ELSE The({ IF NumFalsy(v) THEN body
             ELSE The({ R_formatGearsLoop(ratios, next, more) :
                        more \in {Append(body, <<ToString(index) \o addSuffix(index),
                                                 toFixed(v, 2)>>)},
                        next \in {index + 1} })
             : v \in {parseFloat(ratios[index + 1])} })

\* ratios[0] of the code is ratios[1] here
R_formatGears(tune) ==
  IF tune.gears.na
  THEN R_formatTable(<<"Gears", "Ratio">>, << <<"Not Applicable", "">> >>,
                     FALSE, R_TextAlign.right)
  ELSE The({ IF Len(body) = 1 /\ tune.gears.ratios[1] = "" THEN <<>>
             ELSE R_formatTable(<<"Gears", "Ratio">>, body, FALSE, R_TextAlign.right)
             : body \in {R_formatGearsLoop(tune.gears.ratios, 1,
                           << <<"Final Drive",
                                toFixed(parseFloat(tune.gears.ratios[1]), 2)>> >>)} })

R_formatAlignment(tune) ==
  R_formatFrontRear(<<"Alignment", "Camber", "Toe", "Caster", "Steering Angle">>,
                    << tune.alignment.camber, tune.alignment.toe,
                       [front |-> tune.alignment.caster, rear |-> ""],
                       [front |-> tune.alignment.steeringAngle, rear |-> ""] >>,
                    1, Degree)

R_formatAntiRollbars(tune) ==
  IF tune.arb.na
  THEN R_formatTable(<<"Anti-roll Bars", "">>, << <<"Not Applicable", "">> >>,
                     FALSE, R_TextAlign.right)
  ELSE R_formatFrontRear(<<"Anti-roll Bars", "">>, <<tune.arb>>, 1, "")

\* the placeholder depends on arb.na, not on springs.na
R_formatSprings(tune) ==
  IF tune.arb.na
  THEN R_formatTable(<<"ARBs", "">>, << <<"Not Applicable", "">> >>,
                     FALSE, R_TextAlign.right)
  ELSE R_formatFrontRearWithUnit("Springs", tune.springs, 1)
         \o R_formatFrontRearWithUnit("Ride Height", tune.rideHeight, 1)

R_formatDamping(tune) ==
  R_formatFrontRear(<<"Damping", "Bump", "Rebound">>, <<tune.bump, tune.rebound>>, 1, "")

R_getFormattedRollCenterOffset(v) ==
  [front |-> Join(formatUnit(JSString(v.front), v.units, 1, TRUE), " / "),
   rear  |-> Join(formatUnit(JSString(v.rear), v.units, 1, TRUE), " / ")]

R_formatSuspensionGeometry(tune) ==
  The({ R_formatTable(<<"Suspension Geometry", "Roll Center Offset", "Anti-Geometry">>,
                      << <<"Front", offset.front, tune.antiGeometryPercent.front \o "%">>,
                         <<"Rear", offset.rear, tune.antiGeometryPercent.rear \o "%">> >>,
                      TRUE, R_TextAlign.right)
        : offset \in {R_getFormattedRollCenterOffset(tune.rollCenterHeightOffset)} })

R_formatAero(tune) ==
  IF tune.aero.na
  THEN R_formatTable(<<"Aero">> \o formatUnitHeaders(tune.aero.units),
                     << <<"Not Applicable">>
                          \o formatUnit(JSString(""), tune.aero.units, 1, FALSE) >>,
                     FALSE, R_TextAlign.right)
  ELSE R_formatTable(<<"Aero">> \o formatUnitHeaders(tune.aero.units),
                     << <<"Front">>
                          \o (IF tune.aero.front = "" THEN <<"N/A", "", "">>
                              ELSE formatUnit(JSString(tune.aero.front), tune.aero.units, 1, FALSE)),
                        <<"Rear">>
                          \o (IF tune.aero.rear = "" THEN <<"N/A", "", "">>
                              ELSE formatUnit(JSString(tune.aero.rear), tune.aero.units, 1, FALSE)) >>,
                     FALSE, R_TextAlign.right)

R_formatBrakes(tune) ==
  IF tune.brake.bias = "" /\ tune.brake.pressure = ""
  THEN R_formatTable(<<"Brakes", "%">>, << <<"Not Applicable", "">> >>,
                     FALSE, R_TextAlign.right)
  ELSE R_formatTable(<<"Brakes", "%">>,
                     << <<"Balance", formatFloat(tune.brake.bias, 0, "%")>>,
                        <<"Pressure", formatFloat(tune.brake.pressure, 0, "%")>> >>,
                     FALSE, R_TextAlign.right)

R_formatDifferential(diff, driveType) ==
  IF diff.na
  THEN R_formatTable(<<"Differential", "Accel", "Decel">>,
                     << <<"Not Applicable", "", "">> >>, FALSE, R_TextAlign.right)
  ELSE R_formatTable(<<"Differential", "Accel", "Decel">>,
         (IF R_showValue(diff.front.accel) \/ R_showValue(diff.front.decel)
          THEN << <<"Front", formatFloat(diff.front.accel, 0, "%"),
                    formatFloat(diff.front.decel, 0, "%")>> >>
          ELSE <<>>)
         \o (IF R_showValue(diff.rear.accel) \/ R_showValue(diff.rear.decel)
             THEN << <<"Rear", formatFloat(diff.rear.accel, 0, "%"),
                       formatFloat(diff.rear.decel, 0, "%")>> >>
             ELSE <<>>)
         \o (IF R_showValue(diff.center)
             THEN << <<"Center", formatFloat(diff.center, 0, "%"), "">> >>
             ELSE <<>>),
         FALSE, R_TextAlign.right)

R_formatSteeringWheel(tune) ==
  IF tune.steeringWheel.na
  THEN R_formatTable(<<"Steering Wheel", "">>, << <<"Not Applicable", "">> >>,
                     FALSE, R_TextAlign.right)
  ELSE R_formatTable(<<"Steering Wheel", "">>,
                     << <<"FFB Scale", tune.steeringWheel.ffbScale>>,
                        <<"Steering Lock Range", tune.steeringWheel.steeringLockRange>> >>,
                     FALSE, R_TextAlign.right)

R_formatTune(form0, model) ==
  R_formatTires(form0.tune)
    \o R_formatGears(form0.tune)
    \o R_formatAlignment(form0.tune)
    \o R_formatAntiRollbars(form0.tune)
    \o R_formatSprings(form0.tune)
    \o R_formatDamping(form0.tune)
    \o R_formatSuspensionGeometry(form0.tune)
    \o R_formatAero(form0.tune)
    \o R_formatBrakes(form0.tune)
    \o R_formatDifferential(form0.tune.diff, form0.upgrades.conversions.drivetrain)
    \o R_formatSteeringWheel(form0.tune)

\* the Body Kit row is guarded by aspiration, as in the code
\* formatConversions with the Body Kit row under a test of bodyKit
R_formatConversions_bodyKit(upgrades, driveType) ==
  R_formatTable(<<"Conversions", "">>,
    << <<"Engine", OrElse(upgrades.conversions.engine, "Stock")>>,
       <<"Drivetrain", OrElse(driveType, "Stock")>> >>
    \o (IF upgrades.conversions.aspiration # ""
        THEN << <<"Aspiration", OrElse(upgrades.conversions.aspiration, "Stock")>> >>
        ELSE <<>>)
    \o (IF upgrades.conversions.bodyKit # ""
        THEN << <<"Body Kit", OrElse(upgrades.conversions.bodyKit, "Stock")>> >>
        ELSE <<>>),
    FALSE, R_TextAlign.left)

R_formatConversions(upgrades, driveType) ==
  R_formatTable(<<"Conversions", "">>,
    << <<"Engine", OrElse(upgrades.conversions.engine, "Stock")>>,
       <<"Drivetrain", OrElse(driveType, "Stock")>> >>
    \o (IF upgrades.conversions.aspiration # ""
        THEN << <<"Aspiration", OrElse(upgrades.conversions.aspiration, "Stock")>> >>
        ELSE <<>>)
    \o (IF upgrades.conversions.aspiration # ""
        THEN << <<"Body Kit", OrElse(upgrades.conversions.bodyKit, "Stock")>> >>
        ELSE <<>>),
    FALSE, R_TextAlign.left)

R_formatTireUpgrades(upgrades) ==
  R_formatTable(<<"Tires", "">>,
    << <<"Compound", upgrades.tires.compound>>,
       <<"Tire Width", "Front " \o upgrades.tires.width.front \o " mm, Rear "
                         \o upgrades.tires.width.rear \o " mm">> >>,
    FALSE, R_TextAlign.left)

R_formatWheelUpgrades(upgrades) ==
  R_formatTable(<<"Wheels", "">>,
    << <<"Style", upgrades.wheels.style \o " " \o upgrades.wheels.style>>,
       <<"Size", "Front " \o upgrades.wheels.size.front \o " in, Rear "
                   \o upgrades.wheels.size.rear \o " in">> >>,
    FALSE, R_TextAlign.left)

R_formatAeroBuild(upgrades) ==
  The({ IF Len(aero) = 0 THEN <<>>
        ELSE R_formatTable(<<"Aero and Appearance", "">>, aero, FALSE, R_TextAlign.left)
        : aero \in {
            (IF upgrades.aeroAndAppearance.frontBumper # ""
             THEN << <<"Front Bumper", upgrades.aeroAndAppearance.frontBumper>> >> ELSE <<>>)
            \o (IF upgrades.aeroAndAppearance.rearBumper # ""
                THEN << <<"Rear Bumper", upgrades.aeroAndAppearance.rearBumper>> >> ELSE <<>>)
            \o (IF upgrades.aeroAndAppearance.rearWing # ""
                THEN << <<"Rear Wing", upgrades.aeroAndAppearance.rearWing>> >> ELSE <<>>)
            \o (IF upgrades.aeroAndAppearance.sideSkirts # ""
                THEN << <<"Side Skirts", upgrades.aeroAndAppearance.sideSkirts>> >> ELSE <<>>)
            \o (IF upgrades.aeroAndAppearance.hood # ""
                THEN << <<"Hood", upgrades.aeroAndAppearance.hood>> >> ELSE <<>>) } })

\* formatUpgradesSection with showValue as its filter
R_formatUpgradesSection_showValue(section) ==
  The({ [i \in 1..Len(keys) |-> <<capitalCase(keys[i]), section[keys[i]]>>]
        : keys \in {SelectSeq(ObjectKeys(section),
                              LAMBDA key : R_showValue(section[key]))} })

\* the rows of the keys whose value is truthy and not 'N/A'
R_formatUpgradesSection(section) ==
  The({ [i \in 1..Len(keys) |-> <<capitalCase(keys[i]), section[keys[i]]>>]
        : keys \in {SelectSeq(ObjectKeys(section),
                              LAMBDA key : section[key] # "" /\ section[key] # "N/A")} })

R_formatUpgrades(upgrades, driveType) ==
  R_formatConversions(upgrades, driveType)
    \o R_formatTable(<<"Fuel and Air", "">>, R_formatUpgradesSection(upgrades.fuelAndAir),
                     FALSE, R_TextAlign.left)
    \o R_formatTable(<<"Engine", "">>, R_formatUpgradesSection(upgrades.engine),
                     FALSE, R_TextAlign.left)
    \o R_formatTable(<<"Platform And Handling", "">>,
                     R_formatUpgradesSection(upgrades.platformAndHandling),
                     FALSE, R_TextAlign.left)
    \o R_formatTireUpgrades(upgrades)
    \o R_formatWheelUpgrades(upgrades)
    \o R_formatTable(<<"Drivetrain", "">>, R_formatUpgradesSection(upgrades.drivetrain),
                     FALSE, R_TextAlign.left)
    \o R_formatAeroBuild(upgrades)

R_formatStatisticsTable(form0, globalUnit) ==
  The({ IF Len(stats) = 0 THEN <<>>
        ELSE R_formatTable(<<"Stats", "", "">>, stats, TRUE, R_TextAlign.left)
        : stats \in {
            The({ (IF form0.stats.carPoints # ""
                   THEN << <<"CP", form0.stats.carPoints, "">> >> ELSE <<>>)
                  \o (IF form0.stats.weight # ""
                      THEN << <<"Weight">> \o formatUnit(JSString(form0.stats.weight),
                                                         units.weight, 0, TRUE) >>
                      ELSE <<>>)
                  \o (IF form0.stats.balance # ""
                      THEN << <<"Balance", form0.stats.balance \o "%">> >> ELSE <<>>)
                  \o (IF form0.stats.hp # ""
                      THEN << <<"Power">> \o formatUnit(JSString(form0.stats.hp),
                                                        units.power, 0, TRUE) >>
                      ELSE <<>>)
                  \o (IF form0.stats.torque # ""
                      THEN << <<"Torque">> \o formatUnit(JSString(form0.stats.torque),
                                                         units.torque, 0, TRUE) >>
                      ELSE <<>>)
                  \o (IF form0.stats.topSpeed # ""
                      THEN << <<"Top Speed">> \o formatUnit(JSString(form0.stats.topSpeed),
                                                            units.speed, 0, TRUE) >>
                      ELSE <<>>)
                  \o (IF form0.stats.zeroToSixty # ""
                      THEN << <<"0-60", form0.stats.zeroToSixty \o "s", "">> >> ELSE <<>>)
                  \o (IF form0.stats.zeroToHundred # ""
                      THEN << <<"0-100", form0.stats.zeroToHundred \o "s", "">> >> ELSE <<>>)
                  : units \in {getUnitsForGlobalUnit(globalUnit)} }) } })

R_formatHeader(form0) ==
  "# " \o Join(<<Join(SelectSeq(<<form0.year, form0.make, form0.model>>,
                                LAMBDA val : val # ""), " "),
                 form0.stats.classification \o " " \o ToString(form0.stats.pi)>>, " - ")
       \o "\n"

fmRedditGenerator(form0, globalUnit, linkUrl) ==
  Join(<<R_formatHeader(form0)>>
       \o R_formatStatisticsTable(form0, globalUnit)
       \o <<"[View this tune on optn.club](" \o linkUrl \o ")\n",
            "---\n",
            "## Performance\n">>
       \o R_formatUpgrades(form0.upgrades, form0.upgrades.conversions.drivetrain)
       \o <<"---\n",
            "## Tune\n">>
       \o R_formatTune(form0, form0.model)
       \o <<"---\n",
            "Formatted text generated by the [OPTN.club FM Setup Formatter](https://optn.club/formatter/forza/motorsport/v2)  \n",
            "Submit bugs, feature requests, and questions on [Github](https://github.com/OPTN-Club/optn.club/issues)">>,
       "\n")

----------------------------------------------------------------------------
(* The conversion functions applied to bounded inputs                      *)

\* the largest power of ten among the values converted
MaxExp == 9

\* the largest number of decimals asked of convertTo
MaxPrecision == 2

Values ==
  {parseFloat(s) : s \in {"0", "-3.2", "0.05", "2.5", "14.7"}}
    \cup {Num(FALSE, BigShift(<<3>>, e), <<1>>) : e \in 1..MaxExp}

\* the single-value conversion of the quantity of `from`, from `from` to `to`
convertBetween(v, from, to) ==
  CASE QuantityOf(from) = "pressure"   -> convertPressure(v, from)
    [] QuantityOf(from) = "length"     -> convertLength(v, from)
    [] QuantityOf(from) = "force"      -> convertForce(v, from)
    [] QuantityOf(from) = "speed"      -> convertSpeed(v, from)
    [] QuantityOf(from) = "springRate" -> convertSpringRate(v, from, to)

InitConv ==
  /\ pc = "start"
  /\ value \in Values
  /\ unit0 \in UnitOfMeasure
  /\ unit = unit0
  /\ result = value
  /\ text = ""
  /\ form = getFMDefaultFormV2
  /\ lines = <<>>

\* convert(result, unit): from the current unit to its opposite unit
Convert ==
  /\ pc \in {"start", "converted"}
  /\ result' = convertBetween(result, unit, switchUnit(unit))
  /\ unit' = switchUnit(unit)
  /\ pc' = IF pc = "start" THEN "converted" ELSE "roundtrip"
  /\ UNCHANGED <<value, unit0, text, form, lines>>

\* convertSpringRate(value, unit, unit): to the newtons basis and back
ConvertViaNewtons ==
  /\ pc = "start"
  /\ QuantityOf(unit) = "springRate"
  /\ result' = convertSpringRate(result, unit, unit)
  /\ pc' = "roundtrip"
  /\ UNCHANGED <<value, unit0, unit, text, form, lines>>

\* switchUnit(unit), up to twice
SwitchUnit ==
  /\ pc \in {"start", "switched"}
  /\ unit' = switchUnit(unit)
  /\ pc' = IF pc = "start" THEN "switched" ELSE "switchedTwice"
  /\ UNCHANGED <<value, unit0, result, text, form, lines>>

\* convertTo(value, unit, precision)
ConvertTo ==
  /\ pc = "start"
  /\ \E precision \in 0..MaxPrecision :
       text' = convertTo(value, unit, precision)
  /\ result' = convertToMap(unit, value)
  /\ pc' = "convertedTo"
  /\ UNCHANGED <<value, unit0, unit, form, lines>>

NextConv == Convert \/ ConvertViaNewtons \/ SwitchUnit \/ ConvertTo

SpecConv == InitConv /\ [][NextConv]_vars

----------------------------------------------------------------------------
(* formatGears of both generators applied to bounded gear settings         *)

\* the number of gears after the final drive in the gear settings tried
MaxGears == 3

FinalDrives == {"", "3.50", "abc"}

GearRatios == {"", "2.10", "1.40", "0", "N/A", "abc"}

IdleConv ==
  /\ value = Zero
  /\ unit0 = PressureUnit.bar
  /\ unit = PressureUnit.bar
  /\ result = Zero

InitGears ==
  /\ pc = "start"
  /\ IdleConv
  /\ text = ""
  /\ lines = <<>>
  /\ \E fd \in FinalDrives, gears \in [1..MaxGears -> GearRatios],
        rest \in {0, NumRatios - 1 - MaxGears}, na \in BOOLEAN :
       form = [getFMDefaultFormV2 EXCEPT
                 !.tune.gears = [ratios |-> <<fd>> \o gears \o [i \in 1..rest |-> ""],
                                 na |-> na]]

\* formatGears(form.tune) of the chat generator
DiscordFormatGears ==
  /\ pc = "start"
  /\ lines' = D_formatGears(form.tune)
  /\ pc' = "discord"
  /\ UNCHANGED <<value, unit0, unit, result, text, form>>

\* formatGears(form.tune) of the markdown generator
RedditFormatGears ==
  /\ pc = "start"
  /\ lines' = R_formatGears(form.tune)
  /\ pc' = "reddit"
  /\ UNCHANGED <<value, unit0, unit, result, text, form>>

NextGears == DiscordFormatGears \/ RedditFormatGears

SpecGears == InitGears /\ [][NextGears]_vars

----------------------------------------------------------------------------
(* The differential, brake and steering wheel sections applied to bounded  *)
(* settings: one section is varied at a time                               *)

DiffValues == {"", "50", "30", "N/A"}

BrakeBiases == {"", "50", "48", "N/A"}

BrakePressures == {"", "100", "95", "Stock"}

FfbScales == {"", "100", "80", "N/A"}

SteeringLockRanges == {"", "900", "540", "None"}

DiffForms ==
  { [getFMDefaultFormV2 EXCEPT
       !.tune.diff = [front |-> [accel |-> fa, decel |-> fd],
                      rear |-> [accel |-> ra, decel |-> rd],
                      center |-> c, na |-> na]] :
    fa \in DiffValues, fd \in DiffValues, ra \in DiffValues, rd \in DiffValues,
    c \in DiffValues, na \in BOOLEAN }

BrakeForms ==
  { [getFMDefaultFormV2 EXCEPT
       !.tune.brake = [na |-> na, bias |-> b, pressure |-> p]] :
    b \in BrakeBiases, p \in BrakePressures, na \in BOOLEAN }

SteeringWheelForms ==
  { [getFMDefaultFormV2 EXCEPT
       !.tune.steeringWheel = [na |-> na, ffbScale |-> f, steeringLockRange |-> s]] :
    f \in FfbScales, s \in SteeringLockRanges, na \in BOOLEAN }

InitTune ==
  /\ pc = "start"
  /\ IdleConv
  /\ text = ""
  /\ lines = <<>>
  /\ form \in DiffForms \cup BrakeForms \cup SteeringWheelForms

\* formatDifferential(form.tune.diff, driveType) of the chat generator
DiscordFormatDifferential ==
  /\ pc = "start"
  /\ lines' = D_formatDifferential(form.tune.diff, form.upgrades.conversions.drivetrain)
  /\ pc' = "discordDifferential"
  /\ UNCHANGED <<value, unit0, unit, result, text, form>>

\* formatDifferential(form.tune.diff, driveType) of the markdown generator
RedditFormatDifferential ==
  /\ pc = "start"
  /\ lines' = R_formatDifferential(form.tune.diff, form.upgrades.conversions.drivetrain)
  /\ pc' = "redditDifferential"
  /\ UNCHANGED <<value, unit0, unit, result, text, form>>

\* formatBrakes(form.tune) of the chat generator
DiscordFormatBrakes ==
  /\ pc = "start"
  /\ lines' = D_formatBrakes(form.tune)
  /\ pc' = "discordBrakes"
  /\ UNCHANGED <<value, unit0, unit, result, text, form>>

\* formatSteeringWheel(form.tune) of the chat generator
DiscordFormatSteeringWheel ==
  /\ pc = "start"
  /\ lines' = D_formatSteeringWheel(form.tune)
  /\ pc' = "discordSteeringWheel"
  /\ UNCHANGED <<value, unit0, unit, result, text, form>>

NextTune ==
  \/ DiscordFormatDifferential
  \/ RedditFormatDifferential
  \/ DiscordFormatBrakes
  \/ DiscordFormatSteeringWheel

SpecTune == InitTune /\ [][NextTune]_vars

----------------------------------------------------------------------------
(* The two generators applied to the minimal record and to records that    *)
(* fill in a few more fields                                               *)

\* the default form with the identity of the car filled in
MinimalRecord ==
  [getFMDefaultFormV2 EXCEPT !.year = "2024", !.make = "Test", !.model = "Car"]

LinkUrl == "https://optn.club/formatter/forza/motorsport/v3/abc"

GenForms ==
  { [MinimalRecord EXCEPT
       !.stats.carPoints = cp,
       !.stats.topSpeed = ts,
       !.upgrades.fuelAndAir.exhaust = ex,
       !.upgrades.tires.width.front = tw,
       !.tune.tires.front = tp,
       !.tune.brake.bias = bb,
       !.tune.gears.ratios[1] = fd] :
    cp \in {"", "500"}, ts \in {"", "250"}, ex \in {Upgrade.stock, Upgrade.race},
    tw \in {"", "255"}, tp \in {"", "2.0"}, bb \in {"", "48"}, fd \in {"", "3.50"} }

InitGen ==
  /\ pc = "start"
  /\ IdleConv
  /\ text = ""
  /\ lines = <<>>
  /\ form \in GenForms

\* fmDiscordGenerator(form, globalUnit, linkUrl)
DiscordGenerate ==
  /\ pc = "start"
  /\ \E globalUnit \in {"Metric", "Imperial"} :
       text' = fmDiscordGenerator(form, globalUnit, LinkUrl)
  /\ pc' = "discord"
  /\ UNCHANGED <<value, unit0, unit, result, lines, form>>

\* fmRedditGenerator(form, globalUnit, linkUrl)
RedditGenerate ==
  /\ pc = "start"
  /\ \E globalUnit \in {"Metric", "Imperial"} :
       text' = fmRedditGenerator(form, globalUnit, LinkUrl)
  /\ pc' = "reddit"
  /\ UNCHANGED <<value, unit0, unit, result, lines, form>>

NextGen == DiscordGenerate \/ RedditGenerate

SpecGen == InitGen /\ [][NextGen]_vars

----------------------------------------------------------------------------
(* The tune block of the two generators applied to records that vary the   *)
(* values and the not-applicable flags of one tune section at a time       *)

FrontRearValues == {"", "2.0", "Stock"}

\* a front/rear pair with a unit and a not-applicable flag
WithUnitSettings(units) ==
  { [front |-> f, rear |-> r, units |-> units, na |-> na] :
    f \in FrontRearValues, r \in FrontRearValues, na \in BOOLEAN }

\* a front/rear pair with a not-applicable flag
FrontRearSettings ==
  { [front |-> f, rear |-> r, na |-> na] :
    f \in {"", "2.0"}, r \in {"", "3.0"}, na \in BOOLEAN }

TireForms ==
  { [getFMDefaultFormV2 EXCEPT !.tune.tires = t] :
    t \in WithUnitSettings(PressureUnit.bar) \cup WithUnitSettings(PressureUnit.psi) }

GearForms ==
  { [getFMDefaultFormV2 EXCEPT !.tune.gears.ratios[1] = fd,
                               !.tune.gears.ratios[2] = g1,
                               !.tune.gears.na = na] :
    fd \in {"", "3.50"}, g1 \in {"", "2.10"}, na \in BOOLEAN }

AlignmentForms ==
  { [getFMDefaultFormV2 EXCEPT
       !.tune.alignment = [camber |-> c, toe |-> [front |-> "", rear |-> t],
                           caster |-> ca, steeringAngle |-> "", na |-> na]] :
    c \in FrontRearSettings, t \in {"", "0.1"}, ca \in {"", "5.0"}, na \in BOOLEAN }

ArbForms ==
  { [getFMDefaultFormV2 EXCEPT !.tune.arb = a] : a \in FrontRearSettings }

SpringForms ==
  { [getFMDefaultFormV2 EXCEPT !.tune.springs = s,
                               !.tune.rideHeight.front = h,
                               !.tune.rideHeight.na = hna] :
    s \in WithUnitSettings(SpringRateUnit.kgfmm), h \in {"", "10.0"}, hna \in BOOLEAN }

DampingForms ==
  { [getFMDefaultFormV2 EXCEPT !.tune.bump = [front |-> b, rear |-> "", na |-> bna],
                               !.tune.rebound = [front |-> "", rear |-> r, na |-> rna]] :
    b \in {"", "5.0"}, r \in {"", "7.0"}, bna \in BOOLEAN, rna \in BOOLEAN }

SuspensionGeometryForms ==
  { [getFMDefaultFormV2 EXCEPT
       !.tune.rollCenterHeightOffset.front = o,
       !.tune.rollCenterHeightOffset.na = ona,
       !.tune.antiGeometryPercent = [front |-> "", rear |-> g, na |-> gna]] :
    o \in {"", "2.0", "Stock"}, g \in {"", "40"}, ona \in BOOLEAN, gna \in BOOLEAN }

AeroForms ==
  { [getFMDefaultFormV2 EXCEPT !.tune.aero = a] : a \in WithUnitSettings(ForceUnit.kgf) }

DiffNaForms ==
  { [getFMDefaultFormV2 EXCEPT !.tune.diff.rear.accel = ra,
                               !.tune.diff.center = c,
                               !.tune.diff.na = na] :
    ra \in {"", "30"}, c \in {"", "50", "30"}, na \in BOOLEAN }

SectionForms ==
  TireForms \cup GearForms \cup AlignmentForms \cup ArbForms \cup SpringForms
    \cup DampingForms \cup SuspensionGeometryForms \cup AeroForms
    \cup BrakeForms \cup DiffNaForms \cup SteeringWheelForms

InitSections ==
  /\ pc = "start"
  /\ IdleConv
  /\ text = ""
  /\ lines = <<>>
  /\ form \in SectionForms

\* formatTune(form, form.model) of the chat generator
DiscordFormatTune ==
  /\ pc = "start"
  /\ lines' = D_formatTune(form, form.model)
  /\ pc' = "discordTune"
  /\ UNCHANGED <<value, unit0, unit, result, text, form>>

\* formatTune(form, form.model) of the markdown generator
RedditFormatTune ==
  /\ pc = "start"
  /\ lines' = R_formatTune(form, form.model)
  /\ pc' = "redditTune"
  /\ UNCHANGED <<value, unit0, unit, result, text, form>>

\* the settings formatFrontRearWithUnit of the chat generator is called on,
\* with the header each caller passes
WithUnitHeader ==
  [tires |-> "", springs |-> "Springs", rideHeight |-> "Ride Height",
   rollCenterHeightOffset |-> "Roll Center Offset", aero |-> ""]

\* formatFrontRearWithUnit(header, tune[setting], 1) of the chat generator;
\* text keeps the name of the setting
DiscordFormatFrontRearWithUnit ==
  /\ pc = "start"
  /\ \E setting \in DOMAIN WithUnitHeader :
       /\ lines' = D_formatFrontRearWithUnit(WithUnitHeader[setting], form.tune[setting],
                                             1, FALSE)
       /\ text' = setting
  /\ pc' = "discordFrontRearWithUnit"
  /\ UNCHANGED <<value, unit0, unit, result, form>>

NextSections ==
  \/ DiscordFormatTune
  \/ RedditFormatTune
  \/ DiscordFormatFrontRearWithUnit

SpecSections == InitSections /\ [][NextSections]_vars

----------------------------------------------------------------------------
(* The upgrade groups of the two generators applied to records that vary a *)
(* few fields of one group at a time                                       *)

UpgradeValues == {"", "N/A", "Stock", "None", "Race"}

\* the groups the generators enumerate with Object.keys
ReflectiveGroups == {"fuelAndAir", "engine", "platformAndHandling", "drivetrain"}

\* the header of the table of a group: the same words in both generators
GroupHeader ==
  [fuelAndAir |-> "Fuel and Air", engine |-> "Engine",
   platformAndHandling |-> "Platform And Handling", drivetrain |-> "Drivetrain"]

FuelAndAirForms ==
  { [getFMDefaultFormV2 EXCEPT !.upgrades.fuelAndAir.fuelSystem = a,
                               !.upgrades.fuelAndAir.exhaust = b,
                               !.upgrades.fuelAndAir.restrictorPlate = c] :
    a \in UpgradeValues, b \in UpgradeValues, c \in UpgradeValues }

EngineForms ==
  { [getFMDefaultFormV2 EXCEPT !.upgrades.engine.camshaft = a,
                               !.upgrades.engine.motorAndBattery = b] :
    a \in UpgradeValues, b \in UpgradeValues }

PlatformAndHandlingForms ==
  { [getFMDefaultFormV2 EXCEPT !.upgrades.platformAndHandling.frontArb = a,
                               !.upgrades.platformAndHandling.ballast = b] :
    a \in UpgradeValues, b \in UpgradeValues }

DrivetrainForms ==
  { [getFMDefaultFormV2 EXCEPT !.upgrades.drivetrain.clutch = a,
                               !.upgrades.drivetrain.differential = b] :
    a \in UpgradeValues, b \in UpgradeValues }

ConversionForms ==
  { [getFMDefaultFormV2 EXCEPT
       !.upgrades.conversions = [aspiration |-> a, bodyKit |-> b, engine |-> e,
                                 drivetrain |-> d]] :
    a \in {"", "Turbo"}, b \in {"", "Widebody"}, e \in {"", "V8"},
    d \in {"", DriveType.stock, DriveType.awd} }

UpgradeForms ==
  FuelAndAirForms \cup EngineForms \cup PlatformAndHandlingForms
    \cup DrivetrainForms \cup ConversionForms

InitUpgrades ==
  /\ pc = "start"
  /\ IdleConv
  /\ text = ""
  /\ lines = <<>>
  /\ form \in UpgradeForms

\* formatUpgradesSection(header, upgrades[group]) of the chat generator, as
\* formatUpgrades calls it; text keeps the name of the group
DiscordFormatUpgradesSection ==
  /\ pc = "start"
  /\ \E group \in ReflectiveGroups :
       /\ lines' = D_formatUpgradesSection(GroupHeader[group], form.upgrades[group])
       /\ text' = group
  /\ pc' = "discordUpgradesSection"
  /\ UNCHANGED <<value, unit0, unit, result, form>>

\* formatTable([header, ''], formatUpgradesSection(upgrades[group]), false,
\* TextAlign.left) of the markdown generator, as formatUpgrades calls it
RedditFormatUpgradesSection ==
  /\ pc = "start"
  /\ \E group \in ReflectiveGroups :
       /\ lines' = R_formatTable(<<GroupHeader[group], "">>,
                                 R_formatUpgradesSection(form.upgrades[group]),
                                 FALSE, R_TextAlign.left)
       /\ text' = group
  /\ pc' = "redditUpgradesSection"
  /\ UNCHANGED <<value, unit0, unit, result, form>>

\* formatConversions(upgrades, driveType) of the markdown generator
RedditFormatConversions ==
  /\ pc = "start"
  /\ lines' = R_formatConversions(form.upgrades, form.upgrades.conversions.drivetrain)
  /\ pc' = "redditConversions"
  /\ UNCHANGED <<value, unit0, unit, result, text, form>>

NextUpgrades ==
  \/ DiscordFormatUpgradesSection
  \/ RedditFormatUpgradesSection
  \/ RedditFormatConversions

SpecUpgrades == InitUpgrades /\ [][NextUpgrades]_vars

----------------------------------------------------------------------------
(* The convertXFrom functions and switchUnit applied to bounded inputs,    *)
(* values that are no unit of the registry included                        *)

\* values that are no member of UnitOfMeasure: TypeScript types are erased,
\* so a caller can hand them over at run time
NonUnits == {"furlong", undefined}

FromValues == Values \cup {JSString("2.5")}

InitFrom ==
  /\ pc = "start"
  /\ value \in FromValues
  /\ unit0 \in UnitOfMeasure \cup NonUnits
  /\ unit = unit0
  /\ result = value
  /\ text = ""
  /\ form = getFMDefaultFormV2
  /\ lines = <<>>

\* convertPressureFrom(value, unit0)
ConvertPressureFrom ==
  /\ pc = "start"
  /\ QuantityOf(unit0) = "pressure"
  /\ result' = convertPressureFrom(value, unit0)
  /\ pc' = "convertedFrom"
  /\ UNCHANGED <<value, unit0, unit, text, form, lines>>

\* convertLengthFrom(value, unit0)
ConvertLengthFrom ==
  /\ pc = "start"
  /\ QuantityOf(unit0) = "length"
  /\ result' = convertLengthFrom(value, unit0)
  /\ pc' = "convertedFrom"
  /\ UNCHANGED <<value, unit0, unit, text, form, lines>>

\* convertForceFrom(value, unit0)
ConvertForceFrom ==
  /\ pc = "start"
  /\ QuantityOf(unit0) = "force"
  /\ result' = convertForceFrom(value, unit0)
  /\ pc' = "convertedFrom"
  /\ UNCHANGED <<value, unit0, unit, text, form, lines>>

\* getSpeedValuesFrom(value, unit0)
GetSpeedValuesFrom ==
  /\ pc = "start"
  /\ QuantityOf(unit0) = "speed"
  /\ result' = getSpeedValuesFrom(value, unit0)
  /\ pc' = "convertedFrom"
  /\ UNCHANGED <<value, unit0, unit, text, form, lines>>

\* convertSpringRateFrom(value, unit0)
ConvertSpringRateFrom ==
  /\ pc = "start"
  /\ QuantityOf(unit0) = "springRate"
  /\ result' = convertSpringRateFrom(value, unit0)
  /\ pc' = "convertedFrom"
  /\ UNCHANGED <<value, unit0, unit, text, form, lines>>

NextFrom ==
  \/ SwitchUnit
  \/ ConvertPressureFrom
  \/ ConvertLengthFrom
  \/ ConvertForceFrom
  \/ GetSpeedValuesFrom
  \/ ConvertSpringRateFrom

SpecFrom == InitFrom /\ [][NextFrom]_vars

----------------------------------------------------------------------------
(* The blocks of the two generators applied to records that vary the tune, *)
(* the upgrades or the statistics                                          *)

\* the statistics whose unit is none (car points, balance, 0-60) or a speed
StatsForms ==
  { [MinimalRecord EXCEPT !.stats.carPoints = cp, !.stats.topSpeed = ts,
                          !.stats.balance = b, !.stats.zeroToSixty = z] :
    cp \in {"", "500"}, ts \in {"", "250"}, b \in {"", "52"}, z \in {"", "3.5"} }

TireAndWheelForms ==
  { [getFMDefaultFormV2 EXCEPT !.upgrades.tires.compound = c,
                               !.upgrades.tires.width.front = w,
                               !.upgrades.wheels.style = s,
                               !.upgrades.wheels.size.rear = z] :
    c \in {FMTireCompound.stock, "Race"}, w \in {"", "255"},
    s \in {"", "Alloy"}, z \in {"", "19"} }

BlockForms ==
  SectionForms \cup UpgradeForms \cup StatsForms \cup TireAndWheelForms

InitBlocks ==
  /\ pc = "start"
  /\ IdleConv
  /\ text = ""
  /\ lines = <<>>
  /\ form \in BlockForms

\* formatUpgrades(form.upgrades, driveType) of the chat generator
DiscordFormatUpgrades ==
  /\ pc = "start"
  /\ lines' = D_formatUpgrades(form.upgrades, form.upgrades.conversions.drivetrain)
  /\ pc' = "discordUpgrades"
  /\ UNCHANGED <<value, unit0, unit, result, text, form>>

\* formatUpgrades(form.upgrades, driveType) of the markdown generator
RedditFormatUpgrades ==
  /\ pc = "start"
  /\ lines' = R_formatUpgrades(form.upgrades, form.upgrades.conversions.drivetrain)
  /\ pc' = "redditUpgrades"
  /\ UNCHANGED <<value, unit0, unit, result, text, form>>

\* formatStatisticsTable(form, globalUnit) of the markdown generator
RedditFormatStatisticsTable ==
  /\ pc = "start"
  /\ \E globalUnit \in {"Metric", "Imperial"} :
       lines' = R_formatStatisticsTable(form, globalUnit)
  /\ pc' = "redditStatistics"
  /\ UNCHANGED <<value, unit0, unit, result, text, form>>

NextBlocks ==
  \/ DiscordFormatTune
  \/ DiscordFormatUpgrades
  \/ DiscordGenerate
  \/ RedditFormatTune
  \/ RedditFormatUpgrades
  \/ RedditFormatStatisticsTable

SpecBlocks == InitBlocks /\ [][NextBlocks]_vars

----------------------------------------------------------------------------
(* formatTable of the chat generator applied to bounded bodies, bodies     *)
(* whose rows differ in their number of cells included                     *)

\* the largest number of rows of a body
MaxRows == 2

\* rows as formatStatistics builds them: three cells for the car points,
\* four for a value in two units, two for the balance and the 0-60 time
TableRows ==
  { <<"CP", "500", "">>,
    <<"Power", "300 kw", "/", "402 hp">>,
    <<"Top Speed", "250 kph", "/", "155 mph">>,
    <<"Balance", "52%">>,
    <<"0-60", "3.5s">> }

TableBodies == UNION {[1..n -> TableRows] : n \in 1..MaxRows}

InitTable ==
  /\ pc = "start"
  /\ IdleConv
  /\ text = ""
  /\ lines = <<>>
  /\ form \in { [header |-> "", body |-> b, alignment |-> a] :
                b \in TableBodies,
                a \in {D_TextAlign.left, D_TextAlign.right, D_TextAlign.center} }

\* formatTable(header, body, alignment) of the chat generator; result keeps
\* the widths getColumnWidths(body) returned to it
DiscordFormatTable ==
  /\ pc = "start"
  /\ result' = D_getColumnWidths(form.body)
  /\ lines' = D_formatTable(form.header, form.body, form.alignment)
  /\ pc' = "discordTable"
  /\ UNCHANGED <<value, unit0, unit, text, form>>

NextTable == DiscordFormatTable

SpecTable == InitTable /\ [][NextTable]_vars

----------------------------------------------------------------------------
(* Properties of the conversion functions (SpecConv)                       *)

\* C1: converting a value from a unit to its opposite unit and back (for the
\* spring rate also to the newtons basis and back) returns the value, exactly
\* in exact arithmetic, for every value tried, 0 and large values included.
C1_RoundTrip ==
  pc = "roundtrip" => unit = unit0 /\ NumEq(result, value)

C1_Witness ==
  /\ pc = "roundtrip"
  /\ unit0 = SpringRateUnit.lbs
  /\ value = Num(FALSE, BigShift(<<3>>, MaxExp), <<1>>)
  /\ NumEq(result, value)

\* C2: switchUnit is defined for every unit of the registry, maps it to
\* another unit of the same physical quantity, and switching twice gives the
\* unit back.
C2_SwitchUnitInvolution ==
  /\ pc = "switched" =>
       /\ unit \in UnitOfMeasure
       /\ unit # unit0
       /\ QuantityOf(unit) = QuantityOf(unit0)
  /\ pc = "switchedTwice" => unit = unit0

C2_Witness ==
  pc = "switchedTwice" /\ unit0 = ForceUnit.lbf /\ unit = ForceUnit.lbf

\* C3: convertTo(v, u, precision) converts from the opposite unit
\* switchUnit(u) to u, for every unit u of the registry, the spring rate units
\* included.
C3_ConvertToDirection ==
  pc = "convertedTo" =>
    NumEq(result, convertBetween(value, switchUnit(unit), unit))

----------------------------------------------------------------------------
(* Properties of formatGears (SpecGears)                                   *)

\* the strings the specification calls blank or sentinel values
Sentinels == {"", "N/A", "Stock", "None", null, undefined}

StartsWith(s, prefix) ==
  Len(s) >= Len(prefix) /\ SubSeq(s, 1, Len(prefix)) = prefix

EndsWith(s, suffix) ==
  Len(s) >= Len(suffix) /\ SubSeq(s, Len(s) - Len(suffix) + 1, Len(s)) = suffix

\* how many entries of ratios follow the final drive and precede the first
\* entry of the set `stops` of positions
EntriesBefore(ratios, stops) ==
  IF stops = {} THEN Len(ratios) - 1
  ELSE (CHOOSE i \in stops : \A j \in stops : i <= j) - 2

EmptyEntries(ratios) == {i \in 2..Len(ratios) : ratios[i] = ""}

SentinelEntries(ratios) == {i \in 2..Len(ratios) : ratios[i] \in Sentinels}

ZeroOrNaNEntries(ratios) == {i \in 2..Len(ratios) : NumFalsy(parseFloat(ratios[i]))}

\* the number of rows after the final-drive row in a gear table of the chat
\* generator (heading, rows, blank line) and of the markdown generator
\* (header row, alignment row, rows, separator)
GearRows == IF pc = "discord" THEN Len(lines) - 3 ELSE Len(lines) - 4

GearsFormatted ==
  pc \in {"discord", "reddit"} /\ ~form.tune.gears.na

\* the row of gear k is right: its ordinal label and, for a ratio that is a
\* number, the ratio with two decimals
GearRowRight(k) ==
  IF pc = "discord"
  THEN /\ StartsWith(lines[k + 2], ToString(k) \o addSuffix(k) \o " ")
       /\ ~parseFloat(form.tune.gears.ratios[k + 1]).nan =>
            EndsWith(lines[k + 2],
                     " " \o toFixed(parseFloat(form.tune.gears.ratios[k + 1]), 2))
  ELSE lines[k + 3] = "|" \o ToString(k) \o addSuffix(k) \o "|"
                        \o toFixed(parseFloat(form.tune.gears.ratios[k + 1]), 2) \o "|"

FinalDriveRowRight ==
  IF pc = "discord"
  THEN StartsWith(lines[2], "FR ")
  ELSE StartsWith(lines[3], "|Final Drive|")

\* C4 as stated: the gear table has one row per entry of ratios[1..] before
\* the first empty entry, and nothing after it.
C4_StopAtFirstEmpty ==
  (GearsFormatted /\ lines # <<>>) =>
    GearRows = EntriesBefore(form.tune.gears.ratios, EmptyEntries(form.tune.gears.ratios))

\* C4 as amended: the gear table has one row per entry of ratios[1..], in
\* index order, before the first entry that stops the loop, and nothing after
\* it: the chat generator stops at the first blank or sentinel entry, the
\* markdown generator at the first entry that parses to NaN or to 0.  For
\* ratios 3.50, 2.10, 1.40, '' both tables have 3 data rows.
C4_GearsStopAtFirstGap ==
  (GearsFormatted /\ lines # <<>>) =>
    /\ pc = "discord" =>
         GearRows = EntriesBefore(form.tune.gears.ratios,
                                  SentinelEntries(form.tune.gears.ratios))
    /\ pc = "reddit" =>
         GearRows = EntriesBefore(form.tune.gears.ratios,
                                  ZeroOrNaNEntries(form.tune.gears.ratios))
    /\ \A k \in 1..GearRows : GearRowRight(k)
    /\ SubSeq(form.tune.gears.ratios, 1, 4) = <<"3.50", "2.10", "1.40", "">> =>
         GearRows + 1 = 3

C4_Witness ==
  /\ pc = "discord"
  /\ ~form.tune.gears.na
  /\ SubSeq(form.tune.gears.ratios, 1, 4) = <<"3.50", "2.10", "", "1.40">>
  /\ lines = <<"== Gearing ==\n", "FR  3.50", "1st 2.10", "">>

\* C5 as stated: whenever the gears section is applicable, the output holds a
\* gear table whose first data row is the final-drive row, also for a blank
\* final drive.
C5_FinalDriveAlways ==
  GearsFormatted => lines # <<>> /\ FinalDriveRowRight

\* C5 as amended: whenever the gears section is applicable, the output holds a
\* gear table whose first data row is the final-drive row, except that the
\* output is empty when the final drive is blank and no gear row follows it.
C5_FinalDriveUnlessBlankTable ==
  GearsFormatted =>
    /\ lines = <<>> <=>
         /\ form.tune.gears.ratios[1] = ""
         /\ EntriesBefore(form.tune.gears.ratios,
                          IF pc = "discord"
                          THEN SentinelEntries(form.tune.gears.ratios)
                          ELSE ZeroOrNaNEntries(form.tune.gears.ratios)) = 0
    /\ lines # <<>> => FinalDriveRowRight

C5_Witness ==
  /\ pc = "reddit"
  /\ ~form.tune.gears.na
  /\ form.tune.gears.ratios[1] = ""
  /\ form.tune.gears.ratios[2] = "2.10"
  /\ StartsWith(lines[3], "|Final Drive|")

\* C6: gear rendering never puts the text NaN in a cell, whatever the gear
\* ratios are (blank, or not a number).
C6_NoNaNCell ==
  pc \in {"discord", "reddit"} =>
    \A i \in 1..Len(lines) : ~Contains(lines[i], "NaN")

----------------------------------------------------------------------------
(* Properties of the differential, brake and steering wheel sections       *)
(* (SpecTune)                                                              *)

\* front 50/50, rear blank, center 50
DiffScenario ==
  [front |-> [accel |-> "50", decel |-> "50"],
   rear |-> [accel |-> "", decel |-> ""],
   center |-> "50", na |-> FALSE]

DiffValuesOf(diff) ==
  {diff.front.accel, diff.front.decel, diff.rear.accel, diff.rear.decel}

\* C7 as stated: the chat generator returns no lines for a differential all
\* of whose non-blank values are the default 50 (front 50/50, rear blank,
\* center 50 for one).
C7_DefaultsSuppressed ==
  (/\ pc = "discordDifferential"
   /\ ~form.tune.diff.na
   /\ DiffValuesOf(form.tune.diff) \cup {form.tune.diff.center} \subseteq {"", "50"})
    => lines = <<>>

\* C7 as amended: the chat generator hides only a center value of 50: it
\* returns no lines exactly when every front and rear value is blank or a
\* sentinel and the center is blank, a sentinel or 50.  For front 50/50, rear
\* blank, center 50 it returns the heading, the Accel/Decel header row, the
\* front row and a blank line.
C7_OnlyCenterDefaultSuppressed ==
  (pc = "discordDifferential" /\ ~form.tune.diff.na) =>
    /\ lines = <<>> <=>
         /\ DiffValuesOf(form.tune.diff) \subseteq Sentinels
         /\ form.tune.diff.center \in Sentinels \cup {"50"}
    /\ form.tune.diff = DiffScenario =>
         /\ Len(lines) = 4
         /\ lines[1] = "== Differential ==\n"
         /\ StartsWith(lines[2], "-  Accel")
         /\ StartsWith(lines[3], "F ")
         /\ lines[4] = ""

C7_Witness ==
  /\ pc = "discordDifferential"
  /\ form.tune.diff = DiffScenario
  /\ Len(lines) = 4
  /\ StartsWith(lines[3], "F ")

\* is there a data row with this label in a table of the markdown generator
MarkdownRow(label) ==
  \E i \in 3..(Len(lines) - 1) : StartsWith(lines[i], "|" \o label \o "|")

\* C8: with na false the markdown generator emits the Front (Rear) row exactly
\* when the accel or the decel of that axle is not a blank or sentinel string
\* and the Center row exactly when the center is not, whether or not the
\* values equal a default: for front 50/50, rear blank, center 50 it emits the
\* Front and Center rows and no Rear row.
C8_MarkdownDifferentialRows ==
  (pc = "redditDifferential" /\ ~form.tune.diff.na) =>
    /\ MarkdownRow("Front") <=>
         {form.tune.diff.front.accel, form.tune.diff.front.decel} \ Sentinels # {}
    /\ MarkdownRow("Rear") <=>
         {form.tune.diff.rear.accel, form.tune.diff.rear.decel} \ Sentinels # {}
    /\ MarkdownRow("Center") <=> form.tune.diff.center \notin Sentinels
    /\ Len(lines) - 3 =
         Cardinality({label \in {"Front", "Rear", "Center"} : MarkdownRow(label)})
    /\ form.tune.diff = DiffScenario =>
         /\ Len(lines) = 5
         /\ StartsWith(lines[3], "|Front|")
         /\ StartsWith(lines[4], "|Center|")

C8_Witness ==
  /\ pc = "redditDifferential"
  /\ form.tune.diff = DiffScenario
  /\ MarkdownRow("Front")
  /\ MarkdownRow("Center")
  /\ ~MarkdownRow("Rear")

\* is there a row with this label in a section of the chat generator
ChatRow(label) ==
  \E i \in 2..Len(lines) : StartsWith(lines[i], label)

\* the rows C9 is about, for the four fields: what the row is called and when
\* the field is hidden
BrakeRowsRight(applicable) ==
  /\ ChatRow("Balance") <=>
       applicable /\ form.tune.brake.bias \notin Sentinels \cup {"50"}
  /\ ChatRow("Pressure") <=>
       applicable /\ form.tune.brake.pressure \notin Sentinels \cup {"100"}
  /\ lines = <<>> <=> ~ChatRow("Balance") /\ ~ChatRow("Pressure")

SteeringWheelRowsRight(applicable) ==
  /\ ChatRow("FFB Scale") <=>
       applicable /\ form.tune.steeringWheel.ffbScale \notin Sentinels \cup {"100"}
  /\ ChatRow("Steering Lock") <=>
       applicable /\ form.tune.steeringWheel.steeringLockRange \notin Sentinels \cup {"900"}
  /\ lines = <<>> <=> ~ChatRow("FFB Scale") /\ ~ChatRow("Steering Lock")

\* C9 as stated: in the chat generator a brake pressure of 100, an FFB scale
\* of 100 and a steering lock of 900 give no row, a section whose fields are
\* all blank, sentinel or default is left out, and any other value gives its
\* row.
C9_DefaultsHidden ==
  /\ pc = "discordBrakes" => BrakeRowsRight(TRUE)
  /\ pc = "discordSteeringWheel" => SteeringWheelRowsRight(TRUE)

\* C9 as amended: the same, for a section whose na flag is false; a section
\* whose na flag is true is left out whatever its values are.
C9_DefaultsHiddenWhenApplicable ==
  /\ pc = "discordBrakes" => BrakeRowsRight(~form.tune.brake.na)
  /\ pc = "discordSteeringWheel" => SteeringWheelRowsRight(~form.tune.steeringWheel.na)

C9_Witness ==
  /\ pc = "discordBrakes"
  /\ form.tune.brake = [na |-> FALSE, bias |-> "48", pressure |-> "100"]
  /\ lines = <<"== Brakes ==\n", "Balance 48%", "">>

----------------------------------------------------------------------------
(* Properties of the generators (SpecGen)                                  *)

\* is the document free of every block and table of either generator
NoBlocks(doc) ==
  /\ ~Contains(doc, "** Stats **")
  /\ ~Contains(doc, "** Upgrades **")
  /\ ~Contains(doc, "** Tune **")
  /\ ~Contains(doc, "## Performance")
  /\ ~Contains(doc, "## Tune")
  /\ ~Contains(doc, "|:--|")

\* C10: for the minimal record each generator returns a document
\* made of the title and the attribution lines only, without a statistics,
\* upgrades or tune block and without a table.
C10_MinimalDocument ==
  (pc \in {"discord", "reddit"} /\ form = MinimalRecord) => NoBlocks(text)

----------------------------------------------------------------------------
(* The order of the blocks of a document (SpecGen)                         *)

\* the first position at or after `from` where sub occurs in s; 0 when there
\* is none
FindFrom(s, sub, from) ==
  The({ IF at = {} THEN 0 ELSE CHOOSE i \in at : \A j \in at : i <= j
        : at \in {{i \in from..(Len(s) - Len(sub) + 1) :
                     SubSeq(s, i, i + Len(sub) - 1) = sub}} })

\* do the texts pieces[i], pieces[i+1], ... occur in s in this order, one
\* after the end of the other, from position `from` on
RECURSIVE InOrderFrom(_, _, _, _)
InOrderFrom(s, pieces, i, from) ==
  IF i > Len(pieces) THEN TRUE
  ELSE The({ at # 0 /\ InOrderFrom(s, pieces, i + 1, at + Len(pieces[i]))
             : at \in {FindFrom(s, pieces[i], from)} })

InOrder(s, pieces) == InOrderFrom(s, pieces, 1, 1)

\* the lines of a block as they stand in a document; no piece for no line
BlockText(blockLines) ==
  IF blockLines = <<>> THEN <<>> ELSE <<Join(blockLines, "\n")>>

GlobalUnits == {"Metric", "Imperial"}

ChatAttribution == "Formatted using:\nhttps://optn.club/formatter/forza/motorsport/v3"

MarkdownLink == "[View this tune on optn.club](" \o LinkUrl \o ")\n"

MarkdownAttribution ==
  "Formatted text generated by the [OPTN.club FM Setup Formatter]"
    \o "(https://optn.club/formatter/forza/motorsport/v2)  \n\n"
    \o "Submit bugs, feature requests, and questions on "
    \o "[Github](https://github.com/OPTN-Club/optn.club/issues)"

\* the title, the statistics lines, the upgrades lines and the tune lines of
\* a document, in this order
ChatBlocks(globalUnit) ==
  <<D_formatHeader(form)>>
    \o BlockText(D_formatStatistics(form, globalUnit))
    \o BlockText(D_formatUpgrades(form.upgrades, form.upgrades.conversions.drivetrain))
    \o BlockText(D_formatTune(form, form.model))

MarkdownBlocks(globalUnit) ==
  <<R_formatHeader(form)>>
    \o BlockText(R_formatStatisticsTable(form, globalUnit))
    \o BlockText(R_formatUpgrades(form.upgrades, form.upgrades.conversions.drivetrain))
    \o BlockText(R_formatTune(form, form.model))

\* C11 as stated: each document is the title, then the statistics lines, then
\* the upgrades lines, then the tune lines, then the attribution and link
\* lines, and no attribution or link line stands before the end of the tune
\* block.
C11_LinksLast ==
  /\ pc = "discord" =>
       \E globalUnit \in GlobalUnits :
         /\ InOrder(text, ChatBlocks(globalUnit) \o <<ChatAttribution>>)
         /\ FindFrom(text, "optn.club", 1) = FindFrom(text, ChatAttribution, 1) + 25
  /\ pc = "reddit" =>
       \E globalUnit \in GlobalUnits :
         InOrder(text, MarkdownBlocks(globalUnit) \o <<MarkdownLink, MarkdownAttribution>>)

\* C11 as amended: each document is the title, then the statistics lines,
\* then the upgrades lines, then the tune lines, then the attribution lines,
\* which end the document; the chat document has no link line, the markdown
\* document has its link line between the statistics lines and the upgrades
\* block, before the Performance heading.
C11_BlocksInOrder ==
  /\ pc = "discord" =>
       \E globalUnit \in GlobalUnits :
         /\ StartsWith(text, D_formatHeader(form))
         /\ InOrder(text, ChatBlocks(globalUnit) \o <<ChatAttribution>>)
         /\ EndsWith(text, "\n" \o ChatAttribution)
         /\ FindFrom(text, "optn.club", 1) = Len(text) - Len(ChatAttribution) + 26
  /\ pc = "reddit" =>
       \E globalUnit \in GlobalUnits :
         /\ StartsWith(text, R_formatHeader(form))
         /\ InOrder(text,
              <<R_formatHeader(form)>>
                \o BlockText(R_formatStatisticsTable(form, globalUnit))
                \o <<MarkdownLink, "---\n", "## Performance\n">>
                \o BlockText(R_formatUpgrades(form.upgrades,
                                              form.upgrades.conversions.drivetrain))
                \o <<"---\n", "## Tune\n">>
                \o BlockText(R_formatTune(form, form.model))
                \o <<"---\n", MarkdownAttribution>>)
         /\ EndsWith(text, "\n" \o MarkdownAttribution)

C11_Witness ==
  /\ pc = "discord"
  /\ form.stats.carPoints = "500"
  /\ form.upgrades.fuelAndAir.exhaust = Upgrade.race
  /\ form.tune.brake.bias = "48"
  /\ InOrder(text, <<"** Stats **", "CP", "** Upgrades **", "Exhaust", "** Tune **",
                     "== Brakes ==", "Formatted using:">>)

----------------------------------------------------------------------------
(* The not-applicable flags of the tune sections (SpecSections)            *)

\* the tables of the markdown tune block that belong to a flagged section
MarkdownSections ==
  {"Tires", "Gears", "Alignment", "Anti-roll Bars", "Springs", "Ride Height",
   "Damping", "Suspension Geometry", "Aero", "Brakes", "Differential",
   "Steering Wheel"}

\* is the not-applicable flag of the section set in `form`; the sections made
\* of two settings are flagged when both settings are
SectionNa(name) ==
  CASE name = "Tires"               -> IsNa(form.tune.tires)
    [] name = "Gears"               -> form.tune.gears.na
    [] name = "Alignment"           -> form.tune.alignment.na
    [] name = "Anti-roll Bars"      -> form.tune.arb.na
    [] name = "Springs"             -> form.tune.springs.na
    [] name = "Ride Height"         -> form.tune.rideHeight.na
    [] name = "Damping"             -> form.tune.bump.na /\ form.tune.rebound.na
    [] name = "Suspension Geometry" -> form.tune.rollCenterHeightOffset.na
                                         /\ form.tune.antiGeometryPercent.na
    [] name = "Aero"                -> form.tune.aero.na
    [] name = "Brakes"              -> form.tune.brake.na
    [] name = "Differential"        -> form.tune.diff.na
    [] name = "Steering Wheel"      -> form.tune.steeringWheel.na

\* the table titled `title` stands in the lines ls with a single row, and the
\* row reads 'Not Applicable'
PlaceholderTable(ls, title) ==
  \E i \in 1..(Len(ls) - 3) :
    /\ StartsWith(ls[i], "|**" \o title \o "**|")
    /\ StartsWith(ls[i + 1], "|:--")
    /\ StartsWith(ls[i + 2], "|Not Applicable|")
    /\ ls[i + 3] = R_tableSeparator

\* C12: in the markdown tune block every section whose not-applicable flag is
\* set is rendered as its table with the single row 'Not Applicable',
\* whatever the values of the section are
C12_NaPlaceholderRow ==
  pc = "redditTune" =>
    \A name \in MarkdownSections : SectionNa(name) => PlaceholderTable(lines, name)

\* the settings of the tune that carry a not-applicable flag
FlaggedSettings ==
  {"tires", "gears", "alignment", "arb", "springs", "rideHeight", "bump",
   "rebound", "rollCenterHeightOffset", "antiGeometryPercent", "aero", "brake",
   "diff", "steeringWheel"}

\* the tune with every value of the setting s blank and its flags as they are
BlankSetting(tune, s) ==
  CASE s = "gears" ->
         [tune EXCEPT !.gears.ratios = [i \in 1..Len(tune.gears.ratios) |-> ""]]
    [] s = "alignment" ->
         [tune EXCEPT !.alignment.camber.front = "", !.alignment.camber.rear = "",
                      !.alignment.toe.front = "", !.alignment.toe.rear = "",
                      !.alignment.caster = "", !.alignment.steeringAngle = ""]
    [] s = "brake" -> [tune EXCEPT !.brake.bias = "", !.brake.pressure = ""]
    [] s = "diff" ->
         [tune EXCEPT !.diff.front = [accel |-> "", decel |-> ""],
                      !.diff.rear = [accel |-> "", decel |-> ""],
                      !.diff.center = ""]
    [] s = "steeringWheel" ->
         [tune EXCEPT !.steeringWheel.ffbScale = "",
                      !.steeringWheel.steeringLockRange = ""]
    [] OTHER -> [tune EXCEPT ![s].front = "", ![s].rear = ""]

\* the heading lines of the chat tune block that only the setting s produces
HeadingsOf(s) ==
  CASE s = "tires"                  -> {D_h1("Tires")}
    [] s = "gears"                  -> {D_h1("Gearing")}
    [] s = "alignment"              -> {D_h1("Alignment"), D_h2("Camber"), D_h2("Toe")}
    [] s = "arb"                    -> {D_h1("Anti-roll Bars")}
    [] s = "springs"                -> {D_h2("Springs")}
    [] s = "rideHeight"             -> {D_h2("Ride Height")}
    [] s = "bump"                   -> {D_h2("Bump")}
    [] s = "rebound"                -> {D_h2("Rebound")}
    [] s = "rollCenterHeightOffset" -> {D_h2("Roll Center Offset")}
    [] s = "antiGeometryPercent"    -> {D_h2("Anti-Geometry")}
    [] s = "aero"                   -> {D_h1("Aero")}
    [] s = "brake"                  -> {D_h1("Brakes")}
    [] s = "diff"                   -> {D_h1("Differential")}
    [] s = "steeringWheel"          -> {D_h1("Steering Wheel")}

\* C13: in the chat tune block a setting whose not-applicable flag is set
\* contributes no line, whatever its values are: none of its headings is
\* among the lines, and the lines are those of the same record with the
\* values of the setting blank
C13_NaContributesNoLine ==
  pc = "discordTune" =>
    \A s \in FlaggedSettings :
      IsNa(form.tune[s]) =>
        /\ \A i \in 1..Len(lines) : lines[i] \notin HeadingsOf(s)
        /\ lines = D_formatTune([form EXCEPT !.tune = BlankSetting(form.tune, s)],
                                form.model)

\* a bump setting with a value and the flag, next to a rebound setting that
\* is shown
C13_Witness ==
  /\ pc = "discordTune"
  /\ form.tune.bump.na /\ form.tune.bump.front = "5.0"
  /\ ~form.tune.rebound.na /\ form.tune.rebound.rear = "7.0"
  /\ D_h2("Rebound") \in {lines[i] : i \in 1..Len(lines)}

----------------------------------------------------------------------------
(* The upgrade groups (SpecUpgrades)                                       *)

\* the fields of the group whose value is not among `hidden`, in the order
\* of the group
ShownFields(section, hidden) ==
  SelectSeq(ObjectKeys(section), LAMBDA key : section[key] \notin hidden)

\* the lines of the chat generator for a group with one row per field of keys
ChatGroup(header, section, keys0) ==
  The({ IF Len(keys) = 0 THEN <<>>
        ELSE <<D_h1(header)>>
               \o D_formatTable("", [i \in 1..Len(keys) |->
                                       <<D_formatLabel(keys[i]), section[keys[i]]>>],
                                D_TextAlign.left)
        : keys \in {keys0} })

\* the table of the markdown generator for a group with one row per field of
\* keys
MarkdownGroup(header, section, keys0) ==
  The({ R_formatTable(<<header, "">>,
                      [i \in 1..Len(keys) |-> <<capitalCase(keys[i]), section[keys[i]]>>],
                      FALSE, R_TextAlign.left)
        : keys \in {keys0} })

\* the values the markdown generator hides in an upgrade group
MarkdownHidden == {"", "N/A"}

HasRow(ls, prefix) == \E i \in 1..Len(ls) : StartsWith(ls[i], prefix)

\* C15: the Conversions table of the markdown renderer always has the Engine
\* and Drivetrain rows, reading 'Stock' for a blank value, and has the
\* Aspiration row and the Body Kit row exactly when aspiration is not blank,
\* whatever bodyKit is
C15_BodyKitFollowsAspiration ==
  pc = "redditConversions" =>
    /\ Len(lines) >= 5
    /\ lines[3] = "|Engine|"
                    \o (IF form.upgrades.conversions.engine = "" THEN "Stock"
                        ELSE form.upgrades.conversions.engine) \o "|"
    /\ lines[4] = "|Drivetrain|"
                    \o (IF form.upgrades.conversions.drivetrain = "" THEN "Stock"
                        ELSE form.upgrades.conversions.drivetrain) \o "|"
    /\ HasRow(lines, "|Aspiration|") <=> form.upgrades.conversions.aspiration # ""
    /\ HasRow(lines, "|Body Kit|") <=> form.upgrades.conversions.aspiration # ""
    /\ Len(lines) = IF form.upgrades.conversions.aspiration # "" THEN 7 ELSE 5

\* a record with a body kit and no aspiration: Engine and Drivetrain only
C15_Witness ==
  /\ pc = "redditConversions"
  /\ form.upgrades.conversions.bodyKit = "Widebody"
  /\ form.upgrades.conversions.aspiration = ""
  /\ form.upgrades.conversions.engine = ""
  /\ ~HasRow(lines, "|Body Kit|")
  /\ HasRow(lines, "|Engine|Stock|")

----------------------------------------------------------------------------
(* switchUnit and the convertXFrom functions (SpecFrom)                    *)

\* C16: switchUnit called with a value that is no unit of the registry ends
\* in an error and never returns to its caller
C16_SwitchUnitFailsFast ==
  ~(pc \in {"switched", "switchedTwice"} /\ unit0 \notin UnitOfMeasure)

\* the name of the field of a convertXFrom record that holds the unit u
FieldOf(u) ==
  CASE u = PressureUnit.bar   -> "bar"
    [] u = PressureUnit.psi   -> "psi"
    [] u = LengthUnit.cm      -> "cm"
    [] u = LengthUnit.in      -> "in"
    [] u = ForceUnit.kgf      -> "kgf"
    [] u = ForceUnit.lbf      -> "lbf"
    [] u = SpeedUnit.kph      -> "kph"
    [] u = SpeedUnit.mph      -> "mph"
    [] u = SpringRateUnit.kgf -> "kgf"
    [] u = SpringRateUnit.lbs -> "lbs"

----------------------------------------------------------------------------
(* The rear row of formatFrontRearWithUnit of the chat generator           *)
(* (SpecSections)                                                          *)

\* s without its blanks: the padding of a table row does not count
RECURSIVE RemoveBlanksFrom(_, _)
RemoveBlanksFrom(s, i) ==
  IF i > Len(s) THEN ""
  ELSE (IF SubSeq(s, i, i) = " " THEN "" ELSE SubSeq(s, i, i)) \o RemoveBlanksFrom(s, i + 1)

\* the rear rows among the lines ls, without their blanks
RearRows(ls) ==
  {RemoveBlanksFrom(ls[i], 1) : i \in {j \in 1..Len(ls) : StartsWith(ls[j], "R ")}}

\* the rear row that shows the rear value of the setting v in both units
RearRowOf(v) ==
  RemoveBlanksFrom(Join(<<"R">> \o D_separate(formatUnit(JSString(v.rear), v.units, 1, TRUE),
                                              "/"), ""), 1)

\* C19: the rear row of formatFrontRearWithUnit depends on the rear value and
\* the unit only: a record that differs in the front value has the same rear
\* row or none either, and a rear row that is present shows the rear value
C19_RearRowIndependentOfFront ==
  pc = "discordFrontRearWithUnit" =>
    /\ \A f \in FrontRearValues :
         RearRows(D_formatFrontRearWithUnit(WithUnitHeader[text],
                                            [form.tune[text] EXCEPT !.front = f],
                                            1, FALSE)) = RearRows(lines)
    /\ RearRows(lines) \subseteq {RearRowOf(form.tune[text])}

----------------------------------------------------------------------------
(* Headings and tables of the blocks (SpecBlocks)                          *)

\* a section heading and a table header of the chat generator
IsH1(line) == StartsWith(line, "== ")

IsH2(line) == StartsWith(line, "-- ")

\* is the line a row or a plain line of a section
IsContent(line) == line # "" /\ ~IsH1(line) /\ ~IsH2(line)

\* every section heading of ls is followed by a table header or by a content
\* line, and every table header by a content line
HeadingsHaveContent(ls) ==
  \A i \in 1..Len(ls) :
    /\ IsH1(ls[i]) => i < Len(ls) /\ (IsH2(ls[i + 1]) \/ IsContent(ls[i + 1]))
    /\ IsH2(ls[i]) => i < Len(ls) /\ IsContent(ls[i + 1])

\* the lines of the block with the given title in the chat document of form
ChatBlockLines(title) ==
  CASE title = "Stats"    -> D_formatStatistics(form, "Metric")
    [] title = "Upgrades" -> D_formatUpgrades(form.upgrades,
                                              form.upgrades.conversions.drivetrain)
    [] title = "Tune"     -> D_formatTune(form, form.model)

\* C18: the chat renderer emits no heading without content: in the lines of
\* formatTune and of formatUpgrades every section heading is followed by a
\* content line of its section, formatTable returns no header for an empty
\* body, and the document has the Stats, Upgrades or Tune block (title and
\* code fences) exactly when the block has lines
C18_NoHeadingWithoutContent ==
  /\ pc \in {"discordTune", "discordUpgrades"} => HeadingsHaveContent(lines)
  /\ D_formatTable("Camber", <<>>, D_TextAlign.right) = <<>>
  /\ pc = "discord" =>
       /\ \A title \in {"Stats", "Upgrades", "Tune"} :
            Contains(text, D_bold(title)) <=> ChatBlockLines(title) # <<>>
       /\ ~Contains(text, CodeFence \o "\n" \o CodeFence)

\* a damping section whose bump setting is flagged and whose rebound setting
\* is shown: the heading, the header of the rebound table and its rows
C18_Witness ==
  /\ pc = "discordTune"
  /\ form.tune.bump.na /\ form.tune.bump.front = "5.0"
  /\ form.tune.rebound.rear = "7.0" /\ ~form.tune.rebound.na
  /\ Len(lines) >= 3
  /\ lines[1] = D_h1("Damping")
  /\ lines[2] = D_h2("Rebound")
  /\ IsContent(lines[3])

\* the number of '|' in s from position i on
RECURSIVE CountBarsFrom(_, _)
CountBarsFrom(s, i) ==
  IF i > Len(s) THEN 0
  ELSE (IF SubSeq(s, i, i) = "|" THEN 1 ELSE 0) + CountBarsFrom(s, i + 1)

\* the number of cells of a row of a pipe table
Cells(row) == CountBarsFrom(row, 1) - 1

\* the header row of the table the line j of ls belongs to: the first line
\* of ls, or the line after the closest table separator before j
HeaderOf(ls, j) ==
  ls[CHOOSE h \in 1..j :
       /\ h = 1 \/ ls[h - 1] = R_tableSeparator
       /\ \A k \in h..j : ls[k] # R_tableSeparator \/ k = j]

\* every row of every table of ls has as many cells as the header row of its
\* table
TablesAreRectangular(ls) ==
  \A j \in 1..Len(ls) :
    ls[j] # R_tableSeparator => Cells(ls[j]) = Cells(HeaderOf(ls, j))

\* C20: in every pipe table of the markdown renderer the alignment row and
\* every body row have as many cells as the header row, the Aero table with a
\* blank front or rear value and the Balance row of the Stats table included
C20_TablesAreRectangular ==
  pc \in {"redditTune", "redditUpgrades", "redditStatistics"} =>
    TablesAreRectangular(lines)

----------------------------------------------------------------------------
(* The columns of the tables of the chat generator (SpecTable)             *)

\* the largest number of cells of a row of rows
ColumnCount(rows) ==
  CHOOSE n \in {Len(rows[r]) : r \in 1..Len(rows)} : \A r \in 1..Len(rows) : Len(rows[r]) <= n

\* the largest length of a cell of the column c over the rows that have it
ColumnMax(rows, c) ==
  CHOOSE w \in {Len(rows[r][c]) : r \in {q \in 1..Len(rows) : c <= Len(rows[q])}} :
    \A r \in 1..Len(rows) : c <= Len(rows[r]) => Len(rows[r][c]) <= w

\* s without the blanks at its end
RECURSIVE TrimEnd(_)
TrimEnd(s) ==
  IF Len(s) > 0 /\ SubSeq(s, Len(s), Len(s)) = " " THEN TrimEnd(SubSeq(s, 1, Len(s) - 1))
  ELSE s

\* the cell padded to the width w as the alignment asks
PaddedCell(cell, w, alignment) ==
  IF cell = "/" THEN cell
  ELSE IF alignment = D_TextAlign.center THEN padEnd(padStart(cell, w \div 2), w)
  ELSE IF alignment = D_TextAlign.left THEN padEnd(cell, w)
  ELSE padStart(cell, w)

\* the row with every cell padded to the largest length of its column,
\* joined with single blanks, without the blanks at its end
PaddedRow(rows, r, alignment) ==
  TrimEnd(Join([c \in 1..Len(rows[r]) |->
                  PaddedCell(rows[r][c], ColumnMax(rows, c), alignment)], " "))

\* C21: in a table of the chat renderer the width of every column is the
\* largest cell length of the column over all rows, and every row is its
\* cells padded to these widths ('/' cells apart), joined with single blanks
\* and trimmed at its end, also when the rows differ in their number of cells
C21_ColumnsPaddedToMaxima ==
  pc = "discordTable" =>
    /\ Len(result) = ColumnCount(form.body)
    /\ \A c \in 1..ColumnCount(form.body) : result[c] = ColumnMax(form.body, c)
    /\ Len(lines) = Len(form.body) + 1
    /\ \A r \in 1..Len(form.body) : lines[r] = PaddedRow(form.body, r, form.alignment)

----------------------------------------------------------------------------
(* The gear rows of the two generators side by side (SpecGears)            *)

\* s without its '|' from position i on
RECURSIVE RemoveBarsFrom(_, _)
RemoveBarsFrom(s, i) ==
  IF i > Len(s) THEN ""
  ELSE (IF SubSeq(s, i, i) = "|" THEN "" ELSE SubSeq(s, i, i)) \o RemoveBarsFrom(s, i + 1)

\* the gear rows among the lines ls of either generator, each as its ordinal
\* label followed by its ratio text: the rows whose label starts with a digit
GearRowTexts(ls) ==
  SelectSeq([i \in 1..Len(ls) |-> RemoveBarsFrom(RemoveBlanksFrom(ls[i], 1), 1)],
            LAMBDA row : row # "" /\ CharAt(row, 1) \in Digits)

\* C22: for every gears setting the two renderers render the same gear rows:
\* as many, with the same ordinal labels and the same ratio texts
C22_RenderersAgreeOnGearRows ==
  /\ pc = "discord" => GearRowTexts(lines) = GearRowTexts(R_formatGears(form.tune))
  /\ pc = "reddit" => GearRowTexts(lines) = GearRowTexts(D_formatGears(form.tune))

----------------------------------------------------------------------------
(* The springs tables of the markdown generator against the anti-roll bar  *)
(* section of the record (SpecSections)                                    *)

\* the records that differ from form0 in the anti-roll bar section at most
ArbVariants(form0) ==
  { [form0 EXCEPT !.tune.arb = a] : a \in FrontRearSettings }

\* the places in ls of a not-applicable table under an anti-roll bar header
ArbPlaceholders(ls) ==
  { i \in 1..Len(ls) :
      /\ ls[i] \in {"|**Anti-roll Bars**||", "|**ARBs**||"}
      /\ i + 2 <= Len(ls)
      /\ ls[i + 2] = "|Not Applicable||" }

\* C23: the lines of the markdown formatSprings depend on the springs and the
\* ride height settings only: they are the same for every record that differs
\* in the anti-roll bar section alone, and the tune block holds the anti-roll
\* bar placeholder once at most
C23_SpringsIndependentOfArb ==
  pc = "redditTune" =>
    /\ \A other \in ArbVariants(form) :
         R_formatSprings(other.tune) = R_formatSprings(form.tune)
    /\ Cardinality(ArbPlaceholders(lines)) <= 1

=============================================================================
